---- MODULE Spec2Model ----
(***************************************************************************)
(* A model of cirislens-core, the trace ingestion core of CIRISLens:       *)
(* the two process-wide catalogs (schema cache, public key cache), the     *)
(* control-plane operations that write them, and the per-trace pipeline    *)
(* of process_batch that reads them.                                       *)
(*                                                                         *)
(* Granularity.  Both catalogs sit behind a std::sync::RwLock.  A writer   *)
(* (load_schemas_from_db, refresh_schema_cache, load_public_keys_from_db,  *)
(* refresh_public_key_cache) holds the write guard for its whole body, so  *)
(* each is one atomic action.  The hot path takes a fresh read guard in    *)
(* validate_schema, in every call of verify_signature and in               *)
(* extract_trace_metadata, so each of these is one atomic step and a       *)
(* writer may run between any two of them.                                 *)
(*                                                                         *)
(* JSON.  A serde_json::Value is a tagged record; an object is a sequence  *)
(* of entries kept sorted by key (serde_json's default BTreeMap).  Strings *)
(* are TLA+ strings, read character by character with SubSeq.              *)
(***************************************************************************)
EXTENDS Integers, Sequences, FiniteSets, TLC

\* ------------------------------------------------------------------ strings

\* The printable ASCII characters in code-point order (String::cmp is bytewise);
\* the backquote, which no modelled input contains, is left out.
Ascii ==
    " !\"#$%&'()*+,-./0123456789:;<=>?@ABCDEFGHIJKLMNOPQRSTUVWXYZ[\\]^_abcdefghijklmnopqrstuvwxyz{|}~"

\* the code point order of each character
AsciiIndex ==
    [c \in {SubSeq(Ascii, i, i) : i \in 1..Len(Ascii)} |->
        CHOOSE i \in 1..Len(Ascii) : SubSeq(Ascii, i, i) = c]

Ord(c) == AsciiIndex[c]

CharAt(s, i) == SubSeq(s, i, i)

\* The least element of a non-empty set of integers.
Min(set) == CHOOSE m \in set : \A k \in set : m <= k

\* a < b, bytewise: at the first position where they differ, or by length.
StrLess(a, b) ==
    LET shorter == IF Len(a) < Len(b) THEN Len(a) ELSE Len(b)
        differ == {i \in 1..shorter : CharAt(a, i) # CharAt(b, i)}
    IN IF differ = {} THEN Len(a) < Len(b)
       ELSE Ord(CharAt(a, Min(differ))) < Ord(CharAt(b, Min(differ)))

RECURSIVE Join(_, _)
Join(items, sep) ==
    IF items = <<>> THEN ""
    ELSE IF Len(items) = 1 THEN items[1]
    ELSE items[1] \o sep \o Join(Tail(items), sep)

\* --------------------------------------------------------------------- JSON

JNull == [t |-> "null"]
JBool(b) == [t |-> "bool", b |-> b]
JNum(n) == [t |-> "num", n |-> n]
JStr(s) == [t |-> "str", s |-> s]
JArr(items) == [t |-> "arr", items |-> items]
JMap(entries) == [t |-> "obj", entries |-> entries]

\* Option::None of an Option<&Value>.
NoneV == [t |-> "none"]

\* serde_json::Map::insert on the sorted entry list: replaces an equal key.
RECURSIVE MapInsert(_, _, _)
MapInsert(entries, k, v) ==
    IF entries = <<>> THEN <<[k |-> k, v |-> v]>>
    ELSE IF entries[1].k = k THEN <<[k |-> k, v |-> v]>> \o Tail(entries)
    ELSE IF StrLess(k, entries[1].k) THEN <<[k |-> k, v |-> v]>> \o entries
    ELSE <<entries[1]>> \o MapInsert(Tail(entries), k, v)

RECURSIVE MapFromPairs(_)
MapFromPairs(pairs) ==
    IF pairs = <<>> THEN <<>>
    ELSE MapInsert(MapFromPairs(SubSeq(pairs, 1, Len(pairs) - 1)),
                   pairs[Len(pairs)][1], pairs[Len(pairs)][2])

\* json!({ k: v, ... })
JObj(pairs) == JMap(MapFromPairs(pairs))

\* Value::get(key): Some only on an object that has the key.
Get(v, key) ==
    IF v.t = "obj" /\ \E i \in 1..Len(v.entries) : v.entries[i].k = key
    THEN v.entries[CHOOSE i \in 1..Len(v.entries) : v.entries[i].k = key].v
    ELSE NoneV

\* .and_then(|v| v.as_str())
AsStr(v) == IF v.t = "str" THEN v ELSE NoneV

\* .and_then(|c| c.as_array()).unwrap_or_default()
AsArrayOrEmpty(v) == IF v.t = "arr" THEN v.items ELSE <<>>

\* serde_json's string escaping (quote and backslash; no control characters
\* occur in the modelled inputs).
EscapeChar(c) ==
    IF c = "\"" THEN "\\\""
    ELSE IF c = "\\" THEN "\\\\"
    ELSE c

\* the escaped characters of s[lo..hi], halving the range
RECURSIVE EscapeRange(_, _, _)
EscapeRange(s, lo, hi) ==
    IF lo > hi THEN ""
    ELSE IF lo = hi THEN EscapeChar(CharAt(s, lo))
    ELSE LET mid == (lo + hi) \div 2
         IN EscapeRange(s, lo, mid) \o EscapeRange(s, mid + 1, hi)

EscapeBody(s) == EscapeRange(s, 1, Len(s))

serde_to_string_str(s) == "\"" \o EscapeBody(s) \o "\""

bool_to_string(b) == IF b THEN "true" ELSE "false"

\* Value::to_string(): compact, entries in map order, keys and strings escaped.
RECURSIVE to_string(_)
to_string(v) ==
    CASE v.t = "obj" ->
           "{" \o Join([i \in 1..Len(v.entries) |->
                          serde_to_string_str(v.entries[i].k) \o ":"
                              \o to_string(v.entries[i].v)], ",") \o "}"
      [] v.t = "arr" ->
           "[" \o Join([i \in 1..Len(v.items) |-> to_string(v.items[i])], ",") \o "]"
      [] v.t = "str" -> serde_to_string_str(v.s)
      [] v.t = "num" -> ToString(v.n)
      [] v.t = "bool" -> bool_to_string(v.b)
      [] v.t = "null" -> "null"

\* sorted.sort_by(|a, b| a.0.cmp(b.0)): a stable insertion sort on the keys.
RECURSIVE InsertByKey(_, _)
InsertByKey(sorted, e) ==
    IF sorted = <<>> THEN <<e>>
    ELSE IF StrLess(e.k, sorted[1].k) THEN <<e>> \o sorted
    ELSE <<sorted[1]>> \o InsertByKey(Tail(sorted), e)

RECURSIVE SortByKey(_)
SortByKey(entries) ==
    IF entries = <<>> THEN <<>>
    ELSE InsertByKey(SortByKey(SubSeq(entries, 1, Len(entries) - 1)),
                     entries[Len(entries)])

\* ------------------------------------------------------ canonical encodings

\* is_empty_value that knows null and the empty containers only
is_empty_value_no_string(v) ==
    CASE v.t = "null" -> TRUE
      [] v.t = "arr" -> v.items = <<>>
      [] v.t = "obj" -> v.entries = <<>>
      [] OTHER -> FALSE

is_empty_value(v) ==
    CASE v.t = "null" -> TRUE
      [] v.t = "str" -> v.s = ""
      [] v.t = "arr" -> v.items = <<>>
      [] v.t = "obj" -> v.entries = <<>>
      [] OTHER -> FALSE

\* strip_empty returns Option<Value>; None is NoneV.
RECURSIVE strip_empty(_)
RECURSIVE StripEntries(_)
RECURSIVE StripItems(_)
StripEntries(entries) ==
    IF entries = <<>> THEN <<>>
    ELSE LET e == entries[1]
             rest == StripEntries(Tail(entries))
         IN IF is_empty_value(e.v) THEN rest
            ELSE LET stripped == strip_empty(e.v)
                 IN IF stripped = NoneV THEN rest
                    ELSE <<[k |-> e.k, v |-> stripped]>> \o rest

StripItems(items) ==
    IF items = <<>> THEN <<>>
    ELSE LET rest == StripItems(Tail(items))
         IN IF is_empty_value(items[1]) THEN rest
            ELSE LET stripped == strip_empty(items[1])
                 IN IF stripped = NoneV THEN rest ELSE <<stripped>> \o rest

strip_empty(v) ==
    CASE v.t = "obj" ->
           LET filtered == StripEntries(v.entries)
           IN IF filtered = <<>> THEN NoneV ELSE JMap(filtered)
      [] v.t = "arr" ->
           LET filtered == StripItems(v.items)
           IN IF filtered = <<>> THEN NoneV ELSE JArr(filtered)
      [] OTHER -> v

\* The three serializers differ only in their separators; keys are written
\* with format!("\"{}\"", k), that is unescaped.
RECURSIVE SerializeSorted(_, _, _)
SerializeSorted(v, colon, comma) ==
    CASE v.t = "obj" ->
           LET sorted == SortByKey(v.entries)
           IN "{" \o Join([i \in 1..Len(sorted) |->
                             "\"" \o sorted[i].k \o "\"" \o colon
                                 \o SerializeSorted(sorted[i].v, colon, comma)],
                          comma) \o "}"
      [] v.t = "arr" ->
           "[" \o Join([i \in 1..Len(v.items) |->
                          SerializeSorted(v.items[i], colon, comma)], comma) \o "]"
      [] v.t = "str" -> serde_to_string_str(v.s)
      [] v.t = "num" -> ToString(v.n)
      [] v.t = "bool" -> bool_to_string(v.b)
      [] v.t = "null" -> "null"

sort_and_serialize_inner(v) == SerializeSorted(v, ":", ",")

sort_and_serialize(v) ==
    LET stripped == strip_empty(v)
    IN sort_and_serialize_inner(IF stripped = NoneV THEN JNull ELSE stripped)

sort_and_serialize_legacy(v) == SerializeSorted(v, ": ", ", ")

sort_and_serialize_compact(v) == SerializeSorted(v, ":", ",")

build_199_canonical(components, trace_level) ==
    "{\"components\":" \o sort_and_serialize_compact(components)
        \o ",\"trace_level\":\"" \o trace_level \o "\"}"

\* --------------------------------------------------------------------- maps

\* A HashMap<String, _> is a function on its key set.
EmptyMap == [k \in {} |-> ""]

MapPut(m, k, v) == [x \in DOMAIN m \cup {k} |-> IF x = k THEN v ELSE m[x]]

MapRemove(m, k) == [x \in DOMAIN m \ {k} |-> m[x]]

MapGetOr(m, k, d) == IF k \in DOMAIN m THEN m[k] ELSE d

Front(seq) == SubSeq(seq, 1, Len(seq) - 1)

Last(seq) == seq[Len(seq)]

\* ------------------------------------------------------------ schema cache

\* A row of trace_schema_fields:
\* (schema_ver, event_type, field_name, json_path, data_type, required, db_column).
FieldExtractionRule(f) ==
    [field_name |-> f[3], json_path |-> f[4], data_type |-> f[5],
     required |-> f[6], db_column |-> f[7]]

\* SchemaDefinition::matches
matches(schema, event_types) ==
    IF schema.match_mode = "any"
    THEN \* !event_types.is_disjoint(&self.signature_event_types)
         \E e \in event_types : e \in schema.signature_event_types
    ELSE \* event_types.is_superset(&self.signature_event_types)
         \A e \in schema.signature_event_types : e \in event_types

\* SchemaCache::default()
SchemaCacheNew == [schemas |-> EmptyMap, schemas_by_priority |-> <<>>, loaded |-> FALSE]

\* for schema in &self.schemas_by_priority { if schema.matches(..) { return Some } } None
RECURSIVE FirstMatch(_, _)
FirstMatch(defs, event_types) ==
    IF defs = <<>> THEN NoneV
    ELSE IF matches(defs[1], event_types) THEN defs[1]
    ELSE FirstMatch(Tail(defs), event_types)

detect_schema_version(cache, event_types) ==
    FirstMatch(cache.schemas_by_priority, event_types)

get_field_rules(cache, version, event_type) ==
    IF version \in DOMAIN cache.schemas
       /\ event_type \in DOMAIN cache.schemas[version].field_extractions
    THEN cache.schemas[version].field_extractions[event_type]
    ELSE <<>>

\* fields_by_schema.entry(schema_ver).or_default().entry(event_type).or_default().push(rule)
RECURSIVE GroupFields(_)
GroupFields(fields) ==
    IF fields = <<>> THEN EmptyMap
    ELSE LET prev == GroupFields(Front(fields))
             f == Last(fields)
             by_event == MapGetOr(prev, f[1], EmptyMap)
             rules == MapGetOr(by_event, f[2], <<>>)
         IN MapPut(prev, f[1],
                   MapPut(by_event, f[2], Append(rules, FieldExtractionRule(f))))

SchemaDefinition(row, field_extractions) ==
    [version |-> row[1],
     description |-> row[2],
     status |-> row[3],
     signature_event_types |-> {row[4][i] : i \in 1..Len(row[4])},
     field_extractions |-> field_extractions,
     match_mode |-> IF row[1] = "connectivity" THEN "any" ELSE "all",
     special_handling |-> row[1] = "connectivity"]

\* The loop that builds defs; fields_by_schema.remove(&version) consumes the
\* rules, so a second row of the same version gets none.
RECURSIVE BuildDefs(_, _)
BuildDefs(schemas, fields_by_schema) ==
    IF schemas = <<>> THEN <<>>
    ELSE LET row == schemas[1]
         IN <<SchemaDefinition(row, MapGetOr(fields_by_schema, row[1], EmptyMap))>>
                \o BuildDefs(Tail(schemas), MapRemove(fields_by_schema, row[1]))

\* supported and deprecated exchanged
priority_swapped(status) ==
    CASE status = "current" -> 0
      [] status = "supported" -> 2
      [] status = "deprecated" -> 1
      [] OTHER -> 3

priority(status) ==
    CASE status = "current" -> 0
      [] status = "supported" -> 1
      [] status = "deprecated" -> 2
      [] OTHER -> 3

\* defs.sort_by(..): slice::sort_by is stable.
RECURSIVE InsertByPriority(_, _)
InsertByPriority(sorted, d) ==
    IF sorted = <<>> THEN <<d>>
    ELSE IF priority(d.status) < priority(sorted[1].status) THEN <<d>> \o sorted
    ELSE <<sorted[1]>> \o InsertByPriority(Tail(sorted), d)

RECURSIVE SortByPriority(_)
SortByPriority(defs) ==
    IF defs = <<>> THEN <<>>
    ELSE InsertByPriority(SortByPriority(Front(defs)), Last(defs))

\* defs.iter().map(|d| (d.version.clone(), d.clone())).collect(): a later
\* definition of the same version overwrites an earlier one.
VersionMap(defs) ==
    [v \in {defs[i].version : i \in 1..Len(defs)} |->
        defs[CHOOSE i \in 1..Len(defs) :
                /\ defs[i].version = v
                /\ \A j \in (i + 1)..Len(defs) : defs[j].version # v]]

load_from_db_rows(schemas, fields) ==
    LET defs == SortByPriority(BuildDefs(schemas, GroupFields(fields)))
    IN [schemas |-> VersionMap(defs), schemas_by_priority |-> defs, loaded |-> TRUE]

\* SchemaCache::clear
SchemaCacheClear == [schemas |-> EmptyMap, schemas_by_priority |-> <<>>, loaded |-> FALSE]

\* ------------------------------------------------------- public key cache

\* What base64 decoding and VerifyingKey::from_bytes make of a catalog value:
\* the key material, or the error of load_key.
DecodeKey(public_key_base64) ==
    CASE public_key_base64 = "cGsx" -> [ok |-> TRUE, key |-> "PK1"]
      [] public_key_base64 = "cGsy" -> [ok |-> TRUE, key |-> "PK2"]
      [] public_key_base64 = "c2hvcnQ=" ->
           [ok |-> FALSE, err |-> "Invalid key length: expected 32, got 5"]
      [] OTHER -> [ok |-> FALSE, err |-> "Failed to decode base64"]

\* PublicKeyCache::default(); loaded_at is Some (TRUE) or None (FALSE).
PublicKeyCacheNew == [keys |-> EmptyMap, loaded_at |-> FALSE]

\* PublicKeyCache::load_key: the cache after the call (unchanged on Err).
load_key(cache, key_id, public_key_base64) ==
    LET decoded == DecodeKey(public_key_base64)
    IN IF decoded.ok
       THEN [cache EXCEPT !.keys = MapPut(cache.keys, key_id, decoded.key)]
       ELSE cache

RECURSIVE LoadKeys(_, _)
LoadKeys(cache, keys) ==
    IF keys = <<>> THEN cache
    ELSE LoadKeys(load_key(cache, keys[1][1], keys[1][2]), Tail(keys))

\* A load that ends at the first row that fails to decode
RECURSIVE LoadKeysUntilError(_, _)
LoadKeysUntilError(cache, keys) ==
    IF keys = <<>> THEN cache
    ELSE IF ~DecodeKey(keys[1][2]).ok THEN cache
    ELSE LoadKeysUntilError(load_key(cache, keys[1][1], keys[1][2]), Tail(keys))

load_public_keys_first_error(keys) ==
    [LoadKeysUntilError(PublicKeyCacheNew, keys) EXCEPT !.loaded_at = TRUE]

\* The body of load_public_keys_from_db under its write guard:
\* clear, load_key per row, mark_loaded.
load_public_keys(keys) ==
    [LoadKeys(PublicKeyCacheNew, keys) EXCEPT !.loaded_at = TRUE]

\* ---------------------------------------------------------------- regexes

\* The regex crate's leftmost-first search.  A pattern is a tree; Ends gives
\* the end positions of the matches that start at position i, in the order
\* the pattern prefers them (greedy repetition tries one more round first).
CharsOf(str) == {CharAt(str, i) : i \in 1..Len(str)}

Digit == CharsOf("0123456789")

Alpha == CharsOf("abcdefghijklmnopqrstuvwxyzABCDEFGHIJKLMNOPQRSTUVWXYZ")

WordChar == Alpha \cup Digit \cup {"_"}

Space == {" "}

In(chars) == [op |-> "in", chars |-> chars]
NotIn(chars) == [op |-> "notin", chars |-> chars]
Lit(c) == In({c})
Cat(parts) == [op |-> "cat", parts |-> parts]
\* (a|b): the alternatives in the order the pattern lists them
Alt(parts) == [op |-> "alt", parts |-> parts]
\* r{min,max}; max = -1 is unbounded
Rep(r, min, max) == [op |-> "rep", r |-> r, min |-> min, max |-> max]
Opt(r) == Rep(r, 0, 1)
Plus(r) == Rep(r, 1, -1)
WordBoundary == [op |-> "wb"]

IsWordAt(s, i) == i >= 1 /\ i <= Len(s) /\ CharAt(s, i) \in WordChar

\* The concatenation of the sequences lists[lo..hi], halving the range.
RECURSIVE FlattenRange(_, _, _)
FlattenRange(lists, lo, hi) ==
    IF lo > hi THEN <<>>
    ELSE IF lo = hi THEN lists[lo]
    ELSE LET mid == (lo + hi) \div 2
         IN FlattenRange(lists, lo, mid) \o FlattenRange(lists, mid + 1, hi)

Flatten(lists) == FlattenRange(lists, 1, Len(lists))

ClassHas(re, c) == IF re.op = "in" THEN c \in re.chars ELSE c \notin re.chars

\* The least position of the set, or the default when there is none.
FirstOr(set, default) == IF set = {} THEN default ELSE Min(set)

\* How many characters from position i on are in the class.
RunLength(re, s, i) ==
    FirstOr({j \in i..Len(s) : ~ClassHas(re, CharAt(s, j))}, Len(s) + 1) - i

\* The ends of min..max rounds taken out of a run, the longest first.
RunEnds(run, min, max, i) ==
    LET most == IF max >= 0 /\ max < run THEN max ELSE run
    IN IF most < min THEN <<>>
       ELSE [k \in 1..(most - min + 1) |-> i + most - k + 1]

\* A repetition of a character class.
ClassRepEnds(r, min, max, s, i) == RunEnds(RunLength(r, s, i), min, max, i)

RECURSIVE Ends(_, _, _)
RECURSIVE CatRange(_, _, _, _, _)
RECURSIVE RepEnds(_, _, _, _, _)

\* the matches of one part from each start in turn
FlatEnds(re, s, starts) ==
    Flatten([k \in 1..Len(starts) |-> Ends(re, s, starts[k])])

\* The matches of parts[lo..hi] from each start in turn: the first half, then
\* the second half from where the first ended; no start leaves no match.
CatRange(parts, lo, hi, s, starts) ==
    IF starts = <<>> \/ lo > hi THEN starts
    ELSE IF lo = hi THEN FlatEnds(parts[lo], s, starts)
    ELSE LET mid == (lo + hi) \div 2
         IN CatRange(parts, mid + 1, hi, s, CatRange(parts, lo, mid, s, starts))

CatEnds(parts, s, i) == CatRange(parts, 1, Len(parts), s, <<i>>)

FlatRep(ends, r, min, max, s) ==
    Flatten([k \in 1..Len(ends) |-> RepEnds(r, min, max, s, ends[k])])

RepEnds(r, min, max, s, i) ==
    (IF max = 0 THEN <<>>
     ELSE FlatRep(SelectSeq(Ends(r, s, i), LAMBDA e : e > i), r,
                  IF min > 0 THEN min - 1 ELSE 0,
                  IF max > 0 THEN max - 1 ELSE max, s))
        \o (IF min <= 0 THEN <<i>> ELSE <<>>)

Ends(re, s, i) ==
    CASE re.op = "in" ->
           IF i <= Len(s) /\ CharAt(s, i) \in re.chars THEN <<i + 1>> ELSE <<>>
      [] re.op = "notin" ->
           IF i <= Len(s) /\ CharAt(s, i) \notin re.chars THEN <<i + 1>> ELSE <<>>
      [] re.op = "wb" ->
           IF IsWordAt(s, i - 1) # IsWordAt(s, i) THEN <<i>> ELSE <<>>
      [] re.op = "cat" -> CatEnds(re.parts, s, i)
      [] re.op = "alt" -> Flatten([k \in 1..Len(re.parts) |-> Ends(re.parts[k], s, i)])
      [] re.op = "rep" ->
           IF re.r.op \in {"in", "notin"}
           THEN ClassRepEnds(re.r, re.min, re.max, s, i)
           ELSE RepEnds(re.r, re.min, re.max, s, i)

\* The preferred end when it lies past j, or 0.
FirstPast(ends, j) == IF ends # <<>> /\ ends[1] > j THEN ends[1] ELSE 0

\* The end of the match that starts at j, or 0.
MatchEnd(re, s, j) == FirstPast(Ends(re, s, j), j)

\* The start of the leftmost match at or after i, or 0.
NextStart(re, s, i) == FirstOr({j \in i..Len(s) : MatchEnd(re, s, j) > 0}, 0)

\* Regex::replace_all: non-overlapping matches, leftmost first; j is the
\* start of the next match.
RECURSIVE ReplaceFrom(_, _, _, _)
RECURSIVE ReplaceAt(_, _, _, _, _)
ReplaceAt(re, s, rep, i, j) ==
    IF j = 0 THEN SubSeq(s, i, Len(s))
    ELSE SubSeq(s, i, j - 1) \o rep \o ReplaceFrom(re, s, rep, MatchEnd(re, s, j))

ReplaceFrom(re, s, rep, i) == ReplaceAt(re, s, rep, i, NextStart(re, s, i))

replace_all(re, s, rep) == ReplaceFrom(re, s, rep, 1)

\* Regex::find_iter(..).count()
RECURSIVE CountFrom(_, _, _)
RECURSIVE CountAt(_, _, _)
CountAt(re, s, j) == IF j = 0 THEN 0 ELSE 1 + CountFrom(re, s, MatchEnd(re, s, j))

CountFrom(re, s, i) == CountAt(re, s, NextStart(re, s, i))

find_count(re, s) == CountFrom(re, s, 1)

\* ------------------------------------------------------------ PII scrubber

\* [a-zA-Z0-9._%+-]+@[a-zA-Z0-9.-]+\.[a-zA-Z]{2,}
EMAIL_PATTERN ==
    Cat(<<Plus(In(Alpha \cup Digit \cup CharsOf("._%+-"))), Lit("@"),
          Plus(In(Alpha \cup Digit \cup CharsOf(".-"))), Lit("."),
          Rep(In(Alpha), 2, -1)>>)

\* (?:\+?1[-.\s]?)?\(?[0-9]{3}\)?[-.\s]?[0-9]{3}[-.\s]?[0-9]{4}
PhoneSep == Opt(In(CharsOf("-.") \cup Space))

PHONE_PATTERN ==
    Cat(<<Opt(Cat(<<Opt(Lit("+")), Lit("1"), PhoneSep>>)),
          Opt(Lit("(")), Rep(In(Digit), 3, 3), Opt(Lit(")")), PhoneSep,
          Rep(In(Digit), 3, 3), PhoneSep, Rep(In(Digit), 4, 4)>>)

\* \b(?:\d{1,3}\.){3}\d{1,3}\b
IP_PATTERN ==
    Cat(<<WordBoundary, Rep(Cat(<<Rep(In(Digit), 1, 3), Lit(".")>>), 3, 3),
          Rep(In(Digit), 1, 3), WordBoundary>>)

\* https?://[^\s<>]+
URL_PATTERN ==
    Cat(<<Lit("h"), Lit("t"), Lit("t"), Lit("p"), Opt(Lit("s")), Lit(":"),
          Lit("/"), Lit("/"), Plus(NotIn(Space \cup CharsOf("<>")))>>)

\* \b\d{3}-\d{2}-\d{4}\b
SSN_PATTERN ==
    Cat(<<WordBoundary, Rep(In(Digit), 3, 3), Lit("-"), Rep(In(Digit), 2, 2),
          Lit("-"), Rep(In(Digit), 4, 4), WordBoundary>>)

\* \b(?:\d{4}[-\s]?){3}\d{4}\b
CC_PATTERN ==
    Cat(<<WordBoundary,
          Rep(Cat(<<Rep(In(Digit), 4, 4), Opt(In({"-"} \cup Space))>>), 3, 3),
          Rep(In(Digit), 4, 4), WordBoundary>>)

PII_TARGET_FIELDS ==
    {"task_description", "initial_context", "system_snapshot", "gathered_context",
     "relevant_memories", "conversation_history", "reasoning", "prompt_used",
     "combined_analysis", "action_rationale", "reasoning_summary",
     "action_parameters", "aspdma_prompt", "conscience_override_reason",
     "epistemic_data", "updated_status_content", "entropy_reason",
     "coherence_reason", "optimization_veto_justification",
     "epistemic_humility_justification", "execution_error"}

\* One "if count > 0 { replace_all }" block of scrub_string (no pattern matches
\* in the empty string).
ScrubOne(re, s, placeholder) ==
    IF s = "" THEN s
    ELSE IF find_count(re, s) > 0 THEN replace_all(re, s, placeholder)
    ELSE s

\* The six blocks in turn, each on what the one before left: email, phone,
\* IP address, URL, SSN, credit card.
scrub_string(s) ==
    ScrubOne(CC_PATTERN,
        ScrubOne(SSN_PATTERN,
            ScrubOne(URL_PATTERN,
                ScrubOne(IP_PATTERN,
                    ScrubOne(PHONE_PATTERN,
                        ScrubOne(EMAIL_PATTERN, s, "[EMAIL]"),
                        "[PHONE]"),
                    "[IP_ADDRESS]"),
                "[URL]"),
            "[SSN]"),
        "[CREDIT_CARD]")

\* scrub_value: both branches of the key test recurse with scrub_value, and
\* scrub_value rewrites every string it reaches; the test only decides
\* whether fields_modified is counted.
RECURSIVE scrub_value(_)
scrub_value(v) ==
    CASE v.t = "str" -> JStr(scrub_string(v.s))
      [] v.t = "arr" -> JArr([i \in 1..Len(v.items) |-> scrub_value(v.items[i])])
      [] v.t = "obj" ->
           JMap([i \in 1..Len(v.entries) |->
                   IF v.entries[i].k \in PII_TARGET_FIELDS
                   THEN [k |-> v.entries[i].k, v |-> scrub_value(v.entries[i].v)]
                   ELSE [k |-> v.entries[i].k, v |-> scrub_value(v.entries[i].v)]])
      [] OTHER -> v

\* scrub_pii: the scrubbed copy (the counters only reach the log).
scrub_pii(trace) == scrub_value(trace)

\* ------------------------------------------------------- JSON path resolver

\* str::split('.')
\* path.split('.')
RECURSIVE SplitDots(_)
SplitDots(s) ==
    LET dots == {i \in 1..Len(s) : CharAt(s, i) = "."}
    IN IF dots = {} THEN <<s>>
       ELSE <<SubSeq(s, 1, Min(dots) - 1)>>
                \o SplitDots(SubSeq(s, Min(dots) + 1, Len(s)))

DigitValue(c) == Ord(c) - Ord("0")

RECURSIVE DigitsValue(_, _)
DigitsValue(s, acc) ==
    IF s = "" THEN acc ELSE DigitsValue(Tail(s), 10 * acc + DigitValue(Head(s)))

AllDigits(s) == s # "" /\ \A i \in 1..Len(s) : CharAt(s, i) \in Digit

\* part.parse::<usize>(): an optional '+' and decimal digits.  [ok, n]
ParseUsize(s) ==
    LET body == IF s # "" /\ Head(s) = "+" THEN Tail(s) ELSE s
    IN IF AllDigits(body) THEN [ok |-> TRUE, n |-> DigitsValue(body, 0)]
       ELSE [ok |-> FALSE]

\* s.parse::<i64>(): an optional sign and decimal digits.
ParseInt(s) ==
    LET neg == s # "" /\ Head(s) = "-"
        body == IF s # "" /\ Head(s) \in {"+", "-"} THEN Tail(s) ELSE s
    IN IF AllDigits(body)
       THEN [ok |-> TRUE, n |-> IF neg THEN 0 - DigitsValue(body, 0)
                                ELSE DigitsValue(body, 0)]
       ELSE [ok |-> FALSE]

RECURSIVE ResolveParts(_, _)
ResolveParts(current, parts) ==
    IF parts = <<>> THEN current
    ELSE CASE current.t = "obj" ->
                LET next == Get(current, parts[1])
                IN IF next = NoneV THEN NoneV ELSE ResolveParts(next, Tail(parts))
           [] current.t = "arr" ->
                LET index == ParseUsize(parts[1])
                IN IF index.ok /\ index.n + 1 <= Len(current.items)
                   THEN ResolveParts(current.items[index.n + 1], Tail(parts))
                   ELSE NoneV
           [] OTHER -> NoneV

\* resolve_json_path without the return on the empty path
resolve_json_path_split_always(data, path) == ResolveParts(data, SplitDots(path))

resolve_json_path(data, path) ==
    IF path = "" THEN data ELSE ResolveParts(data, SplitDots(path))

LowerOf(c) ==
    IF c \in CharsOf("ABCDEFGHIJKLMNOPQRSTUVWXYZ")
    THEN CharAt(Ascii, Ord(c) + (Ord("a") - Ord("A")))
    ELSE c

RECURSIVE LowerRange(_, _, _)
LowerRange(s, lo, hi) ==
    IF lo > hi THEN ""
    ELSE IF lo = hi THEN LowerOf(CharAt(s, lo))
    ELSE LET mid == (lo + hi) \div 2
         IN LowerRange(s, lo, mid) \o LowerRange(s, mid + 1, hi)

to_lowercase(s) == LowerRange(s, 1, Len(s))

\* str::contains
Contains(s, sub) ==
    \E i \in 1..(Len(s) - Len(sub) + 1) : SubSeq(s, i, i + Len(sub) - 1) = sub

value_to_string(v) ==
    CASE v.t = "str" -> v.s
      [] v.t = "num" -> ToString(v.n)
      [] v.t = "bool" -> bool_to_string(v.b)
      [] v.t = "null" -> ""
      [] OTHER -> to_string(v)

\* Option<i64> as [ok, n].  Numbers of the model are integers.
value_to_int(v) ==
    CASE v.t = "num" -> [ok |-> TRUE, n |-> v.n]
      [] v.t = "str" -> ParseInt(v.s)
      [] OTHER -> [ok |-> FALSE]

\* Option<f64>; of the strings only the integer literals are modelled as
\* parsing (f64's Display of an integral value prints no fraction).
value_to_float(v) == value_to_int(v)

\* Option<bool> as [ok, b]
value_to_bool(v) ==
    CASE v.t = "bool" -> [ok |-> TRUE, b |-> v.b]
      [] v.t = "str" ->
           LET l == to_lowercase(v.s)
           IN IF l \in {"true", "1", "yes"} THEN [ok |-> TRUE, b |-> TRUE]
              ELSE IF l \in {"false", "0", "no"} THEN [ok |-> TRUE, b |-> FALSE]
              ELSE [ok |-> FALSE]
      [] v.t = "num" -> [ok |-> TRUE, b |-> v.n # 0]
      [] OTHER -> [ok |-> FALSE]

\* -------------------------------------------------------------- extraction

convert_value(value, data_type) ==
    CASE data_type = "float" ->
           LET f == value_to_float(value) IN IF f.ok THEN ToString(f.n) ELSE ""
      [] data_type = "int" ->
           LET n == value_to_int(value) IN IF n.ok THEN ToString(n.n) ELSE ""
      [] data_type = "boolean" ->
           LET b == value_to_bool(value) IN IF b.ok THEN bool_to_string(b.b) ELSE ""
      [] data_type = "json" -> to_string(value)
      [] OTHER -> value_to_string(value)

FullComponentKey(event_type) ==
    CASE event_type = "DMA_RESULTS" -> "dma_results"
      [] event_type = "ASPDMA_RESULT" -> "aspdma_result"
      [] event_type = "IDMA_RESULT" -> "idma_result"
      [] event_type = "TSASPDMA_RESULT" -> "tsaspdma_result"
      [] event_type = "CONSCIENCE_RESULT" -> "conscience_result"
      [] event_type = "ACTION_RESULT" -> "action_result"
      [] OTHER -> ""

\* store_full_component without the contains_key test
store_full_component_always(metadata, event_type, data) ==
    LET key == FullComponentKey(event_type)
    IN IF key # "" THEN MapPut(metadata, key, to_string(data)) ELSE metadata

store_full_component(metadata, event_type, data) ==
    LET key == FullComponentKey(event_type)
    IN IF key # "" /\ key \notin DOMAIN metadata
       THEN MapPut(metadata, key, to_string(data))
       ELSE metadata

\* A rule loop that keeps the value a column already has
RECURSIVE ApplyRulesFirstWins(_, _, _)
ApplyRulesFirstWins(metadata, rules, data) ==
    IF rules = <<>> THEN metadata
    ELSE LET value == resolve_json_path(data, rules[1].json_path)
         IN ApplyRulesFirstWins(
                IF value = NoneV \/ rules[1].db_column \in DOMAIN metadata
                THEN metadata
                ELSE MapPut(metadata, rules[1].db_column,
                            convert_value(value, rules[1].data_type)),
                Tail(rules), data)

\* for rule in field_rules { .. metadata.insert(rule.db_column, extracted) .. }
RECURSIVE ApplyRules(_, _, _)
ApplyRules(metadata, rules, data) ==
    IF rules = <<>> THEN metadata
    ELSE LET value == resolve_json_path(data, rules[1].json_path)
         IN ApplyRules(IF value = NoneV THEN metadata
                       ELSE MapPut(metadata, rules[1].db_column,
                                   convert_value(value, rules[1].data_type)),
                       Tail(rules), data)

ComponentEventType(component) ==
    LET e == AsStr(Get(component, "event_type"))
    IN IF e = NoneV THEN "unknown" ELSE e.s

ComponentData(component) ==
    LET d == Get(component, "data") IN IF d = NoneV THEN component ELSE d

\* for component in &components { .. }
RECURSIVE ExtractComponents(_, _, _, _)
ExtractComponents(metadata, components, cache, schema_version) ==
    IF components = <<>> THEN metadata
    ELSE LET event_type == ComponentEventType(components[1])
             data == ComponentData(components[1])
             field_rules == get_field_rules(cache, schema_version, event_type)
         IN ExtractComponents(
                store_full_component(ApplyRules(metadata, field_rules, data),
                                     event_type, data),
                Tail(components), cache, schema_version)

\* extract_trace_metadata without the return on a cache that is not loaded
extract_trace_metadata_unchecked(cache, trace, schema_version) ==
    LET components == AsArrayOrEmpty(Get(trace, "components"))
        trace_id == AsStr(Get(trace, "trace_id"))
    IN ExtractComponents(
           IF trace_id # NoneV THEN MapPut(EmptyMap, "trace_id", trace_id.s)
           ELSE EmptyMap,
           components, cache, schema_version)

\* extract_trace_metadata, with the schema cache its read guard sees.
extract_trace_metadata(cache, trace, schema_version) ==
    LET components == AsArrayOrEmpty(Get(trace, "components"))
        trace_id == AsStr(Get(trace, "trace_id"))
    IN IF ~cache.loaded THEN EmptyMap
       ELSE ExtractComponents(
                IF trace_id # NoneV THEN MapPut(EmptyMap, "trace_id", trace_id.s)
                ELSE EmptyMap,
                components, cache, schema_version)

\* ----------------------------------------------------------------- routing

is_mock_trace(models_used) == Contains(to_lowercase(models_used), "mock")

\* determine_routing that looks for mock models at every tier
determine_routing_every_tier(metadata, trace_level) ==
    IF "schema_version" \in DOMAIN metadata /\ metadata["schema_version"] = "connectivity"
    THEN "connectivity"
    ELSE IF is_mock_trace(MapGetOr(metadata, "models_used", "[]"))
    THEN "mock"
    ELSE "production"

determine_routing(metadata, trace_level) ==
    IF "schema_version" \in DOMAIN metadata /\ metadata["schema_version"] = "connectivity"
    THEN "connectivity"
    ELSE IF trace_level # "generic"
            /\ is_mock_trace(MapGetOr(metadata, "models_used", "[]"))
    THEN "mock"
    ELSE "production"

\* --------------------------------------------------------------- sanitizer

MAX_FIELD_SIZE == 100000

MAX_TRACE_SIZE == 10000000

Star(r) == Rep(r, 0, -1)

\* The characters of str one after the other.
Str(str) == Cat([i \in 1..Len(str) |-> Lit(CharAt(str, i))])

\* The same under (?i): each letter in either case.
AnyCase(str) ==
    Cat([i \in 1..Len(str) |->
            In({c \in CharsOf(Ascii) : LowerOf(c) = LowerOf(CharAt(str, i))})])

\* "." : any character but the line feed
Dot == NotIn({"\n"})

\* (?i)<tag[^>]*>
OpenTag(tag) == Cat(<<AnyCase("<" \o tag), Star(NotIn({">"})), Lit(">")>>)

XSS_PATTERNS ==
    <<OpenTag("script"),
      AnyCase("javascript:"),
      Cat(<<AnyCase("on"), Plus(In(WordChar)), Star(In(Space)), Lit("=")>>),
      OpenTag("iframe"),
      OpenTag("object"),
      OpenTag("embed")>>

SQL_PATTERNS ==
    <<Cat(<<Lit("'"), Star(In(Space)), Alt(<<AnyCase("or"), AnyCase("and")>>),
            Star(In(Space)), Opt(Lit("'")), In(Digit)>>),
      Cat(<<Lit(";"), Star(In(Space)),
            Alt(<<AnyCase("drop"), AnyCase("delete"), AnyCase("truncate"),
                  AnyCase("alter")>>),
            In(Space)>>),
      Cat(<<AnyCase("union"), Plus(In(Space)),
            Opt(Cat(<<AnyCase("all"), Plus(In(Space))>>)), AnyCase("select")>>),
      Cat(<<Str("/*"), Star(Dot), Str("*/")>>)>>

\* The third pattern of the source, a run between two backquotes, is left
\* out: no string of the model holds a backquote.
CMD_PATTERNS ==
    <<Cat(<<Lit(";"), Star(In(Space)),
            Alt(<<Str("rm"), Str("cat"), Str("wget"), Str("curl"), Str("chmod")>>),
            In(Space)>>),
      Cat(<<Lit("|"), Star(In(Space)),
            Alt(<<Str("bash"), Str("sh"), Str("zsh"), Str("cmd")>>)>>),
      Cat(<<Str("$("), Plus(NotIn({")"})), Lit(")")>>)>>

Slash == In({"\\", "/"})

PATH_PATTERNS ==
    <<Cat(<<Str(".."), Slash>>),
      Cat(<<Slash, Str("etc"), Slash, Alt(<<Str("passwd"), Str("shadow")>>)>>),
      Cat(<<Slash, Alt(<<Str("proc"), Str("sys")>>), Slash>>)>>

\* Regex::is_match
is_match(re, s) == \E j \in 1..(Len(s) + 1) : Ends(re, s, j) # <<>>

\* SanitizationResult::default()
SanitizationResult ==
    [xss_detections |-> 0, sql_detections |-> 0, cmd_detections |-> 0,
     path_detections |-> 0, oversized_fields |-> 0, total_detections |-> 0]

\* How many patterns of the list match s.
CountMatches(patterns, s) ==
    Cardinality({k \in 1..Len(patterns) : is_match(patterns[k], s)})

\* What scan_string finds in s.
Detections(s) ==
    [xss |-> CountMatches(XSS_PATTERNS, s), sql |-> CountMatches(SQL_PATTERNS, s),
     cmd |-> CountMatches(CMD_PATTERNS, s), path |-> CountMatches(PATH_PATTERNS, s),
     oversized |-> IF Len(s) > MAX_FIELD_SIZE THEN 1 ELSE 0]

\* result.x_detections += 1; result.total_detections += 1, per finding
AddDetections(result, d) ==
    [xss_detections |-> result.xss_detections + d.xss,
     sql_detections |-> result.sql_detections + d.sql,
     cmd_detections |-> result.cmd_detections + d.cmd,
     path_detections |-> result.path_detections + d.path,
     oversized_fields |-> result.oversized_fields + d.oversized,
     total_detections |-> result.total_detections + d.oversized + d.xss + d.sql
                              + d.cmd + d.path]

scan_string(s, result) == AddDetections(result, Detections(s))

RECURSIVE scan_value(_, _)
RECURSIVE ScanItems(_, _)
RECURSIVE ScanEntries(_, _)
ScanItems(items, result) ==
    IF items = <<>> THEN result
    ELSE ScanItems(Tail(items), scan_value(items[1], result))

\* for (key, val) in obj: the key, then the value
ScanEntries(entries, result) ==
    IF entries = <<>> THEN result
    ELSE ScanEntries(Tail(entries),
                     scan_value(entries[1].v, scan_string(entries[1].k, result)))

scan_value(value, result) ==
    CASE value.t = "str" -> scan_string(value.s, result)
      [] value.t = "arr" -> ScanItems(value.items, result)
      [] value.t = "obj" -> ScanEntries(value.entries, result)
      [] OTHER -> result

\* The SanitizationResult sanitize_trace has built when it logs it: the size
\* check of the whole trace, then scan_value.
SanitizeScan(trace) ==
    scan_value(trace,
               IF Len(to_string(trace)) > MAX_TRACE_SIZE
               THEN [SanitizationResult EXCEPT !.oversized_fields = 1]
               ELSE SanitizationResult)

\* sanitize_trace that hands on an empty object when the scan finds something
sanitize_trace_strict(trace) ==
    IF SanitizeScan(trace).total_detections > 0 THEN JObj(<<>>) ELSE trace

\* sanitize_trace scans and logs, and returns trace.clone().
sanitize_trace(trace) == trace

\* ------------------------------------------------------ signature verifier

Some(x) == [some |-> TRUE, v |-> x]
None == [some |-> FALSE]

\* The digest a signature is made over: a sum over the characters, weighted
\* by position, that tells apart the canonical messages of the model.
RECURSIVE WeightedSum(_, _, _)
WeightedSum(message, lo, hi) ==
    IF lo > hi THEN 0
    ELSE IF lo = hi THEN lo * Ord(CharAt(message, lo))
    ELSE LET mid == (lo + hi) \div 2
         IN WeightedSum(message, lo, mid) + WeightedSum(message, mid + 1, hi)

Digest(message) == ToString(WeightedSum(message, 1, Len(message)))

\* Ed25519 as an ideal signature: the only signature that verifies for a
\* message under a key is the one the holder of that key made for it.
Sign(key, message) == "sig:" \o key \o ":" \o Digest(message)

\* URL_SAFE_NO_PAD, then STANDARD base64, then Signature::from_slice (64 bytes).
DecodeSignature(signature_base64) ==
    IF Len(signature_base64) >= 4 /\ SubSeq(signature_base64, 1, 4) = "sig:"
    THEN [ok |-> TRUE]
    ELSE IF signature_base64 = "AAAA"
    THEN [ok |-> FALSE, err |-> "Parse error: signature length"]
    ELSE [ok |-> FALSE, err |-> "Decode error: invalid base64"]

\* verify_signature that takes an empty cache for "unverified mode" and
\* lets the signature through.
verify_signature_unverified_mode(cache, message, signature_base64, key_id) ==
    IF DOMAIN cache.keys = {}
    THEN [verified |-> TRUE, key_id |-> Some(key_id), error |-> None]
    ELSE IF key_id \notin DOMAIN cache.keys
    THEN [verified |-> FALSE, key_id |-> Some(key_id),
          error |-> Some("Unknown signer key")]
    ELSE LET decoded == DecodeSignature(signature_base64)
         IN IF ~decoded.ok
            THEN [verified |-> FALSE, key_id |-> Some(key_id),
                  error |-> Some(decoded.err)]
            ELSE IF signature_base64 = Sign(cache.keys[key_id], message)
            THEN [verified |-> TRUE, key_id |-> Some(key_id), error |-> None]
            ELSE [verified |-> FALSE, key_id |-> Some(key_id),
                  error |-> Some("Verification failed: signature error")]

\* verify_signature, with the key cache its read guard sees.
verify_signature(cache, message, signature_base64, key_id) ==
    IF DOMAIN cache.keys = {}
    THEN [verified |-> FALSE, key_id |-> Some(key_id),
          error |-> Some("No public keys loaded - unverified mode")]
    ELSE IF key_id \notin DOMAIN cache.keys
    THEN [verified |-> FALSE, key_id |-> Some(key_id),
          error |-> Some("Unknown signer key")]
    ELSE LET decoded == DecodeSignature(signature_base64)
         IN IF ~decoded.ok
            THEN [verified |-> FALSE, key_id |-> Some(key_id),
                  error |-> Some(decoded.err)]
            ELSE IF signature_base64 = Sign(cache.keys[key_id], message)
            THEN [verified |-> TRUE, key_id |-> Some(key_id), error |-> None]
            ELSE [verified |-> FALSE, key_id |-> Some(key_id),
                  error |-> Some("Verification failed: signature error")]

\* ---------------------------------------------------------------- pipeline

TraceResult(trace_id, destination, schema_version, accepted, rejection_reason, extracted_metadata) ==
    [trace_id |-> trace_id, destination |-> destination,
     schema_version |-> schema_version, accepted |-> accepted,
     rejection_reason |-> rejection_reason,
     extracted_metadata |-> extracted_metadata]

TraceId(trace) ==
    LET id == AsStr(Get(trace, "trace_id")) IN IF id = NoneV THEN "unknown" ELSE id.s

\* The event types of the components, plus the top-level event_type.
AllEvents(trace) ==
    LET components == AsArrayOrEmpty(Get(trace, "components"))
        event_types == {AsStr(Get(components[i], "event_type")).s :
                           i \in {j \in 1..Len(components) :
                                     AsStr(Get(components[j], "event_type")) # NoneV}}
        single_event_type == AsStr(Get(trace, "event_type"))
    IN IF single_event_type = NoneV THEN event_types
       ELSE event_types \cup {single_event_type.s}

\* validate_schema that asks whether the cache is loaded before it asks
\* whether the trace has event types
validate_schema_loaded_first(cache, trace) ==
    LET all_events == AllEvents(trace)
    IN IF ~cache.loaded
       THEN [version |-> Some("unknown"), valid |-> TRUE, reason |-> None]
       ELSE IF all_events = {}
       THEN [version |-> None, valid |-> FALSE,
             reason |-> Some("No event_types found")]
       ELSE LET schema == detect_schema_version(cache, all_events)
            IN IF schema # NoneV
               THEN [version |-> Some(schema.version), valid |-> TRUE, reason |-> None]
               ELSE [version |-> None, valid |-> FALSE,
                     reason |-> Some("No matching schema for events")]

\* validate_schema, with the schema cache its read guard sees.  The reason of
\* a failed detection lists the events in HashSet order; only its fixed
\* prefix is kept.
validate_schema(cache, trace) ==
    LET all_events == AllEvents(trace)
    IN IF all_events = {}
       THEN [version |-> None, valid |-> FALSE,
             reason |-> Some("No event_types found")]
       ELSE IF ~cache.loaded
       THEN [version |-> Some("unknown"), valid |-> TRUE, reason |-> None]
       ELSE LET schema == detect_schema_version(cache, all_events)
            IN IF schema # NoneV
               THEN [version |-> Some(schema.version), valid |-> TRUE, reason |-> None]
               ELSE [version |-> None, valid |-> FALSE,
                     reason |-> Some("No matching schema for events")]

\* extract_connectivity_metadata that copies every top-level string field
extract_connectivity_metadata_all(trace) ==
    LET entries == trace.entries
        strings == {i \in 1..Len(entries) : entries[i].v.t = "str"}
    IN MapPut([k \in {entries[i].k : i \in strings} |-> AsStr(Get(trace, k)).s],
              "event_data", to_string(trace))

extract_connectivity_metadata(trace) ==
    LET put(m, key) ==
            LET f == AsStr(Get(trace, key))
            IN IF f = NoneV THEN m ELSE MapPut(m, key, f.s)
    IN MapPut(put(put(put(put(EmptyMap, "event_type"), "agent_name"), "agent_id"),
                  "agent_id_hash"),
              "event_data", to_string(trace))

\* The match on (signature, key_id) with the key id looked at first
SignaturePrecheckKeyFirst(trace) ==
    LET signature == AsStr(Get(trace, "signature"))
        key_id == AsStr(Get(trace, "signature_key_id"))
    IN IF key_id = NoneV
       THEN [attempt |-> FALSE,
             result |-> [verified |-> FALSE, key_id |-> None,
                         error |-> Some("Signature present but key_id missing")]]
       ELSE IF signature = NoneV
       THEN [attempt |-> FALSE,
             result |-> [verified |-> FALSE, key_id |-> None,
                         error |-> Some("No signature provided")]]
       ELSE IF Get(trace, "components") = NoneV
       THEN [attempt |-> FALSE,
             result |-> [verified |-> FALSE, key_id |-> Some(key_id.s),
                         error |-> Some("No components array for signature verification")]]
       ELSE [attempt |-> TRUE]

\* verify_trace_signature before its first verify_signature: the outcome when
\* the match on (signature, key_id) or the components lookup ends it, or
\* "attempt" when the encodings are to be tried.
SignaturePrecheck(trace) ==
    LET signature == AsStr(Get(trace, "signature"))
        key_id == AsStr(Get(trace, "signature_key_id"))
    IN IF signature = NoneV
       THEN [attempt |-> FALSE,
             result |-> [verified |-> FALSE, key_id |-> None,
                         error |-> Some("No signature provided")]]
       ELSE IF key_id = NoneV
       THEN [attempt |-> FALSE,
             result |-> [verified |-> FALSE, key_id |-> None,
                         error |-> Some("Signature present but key_id missing")]]
       ELSE IF Get(trace, "components") = NoneV
       THEN [attempt |-> FALSE,
             result |-> [verified |-> FALSE, key_id |-> Some(key_id.s),
                         error |-> Some("No components array for signature verification")]]
       ELSE [attempt |-> TRUE]

\* The message of each attempt of verify_trace_signature.
CanonicalFor(format, trace, trace_level) ==
    LET components == Get(trace, "components")
    IN CASE format = "1.9.9" -> build_199_canonical(components, trace_level)
         [] format = "1.9.7" -> sort_and_serialize(components)
         [] format = "pre-1.9.7" -> sort_and_serialize_legacy(components)

\* One attempt: verify_signature(&canonical, sig, kid, ctx).
VerifyAttempt(cache, format, trace, trace_level) ==
    verify_signature(cache, CanonicalFor(format, trace, trace_level),
                     AsStr(Get(trace, "signature")).s,
                     AsStr(Get(trace, "signature_key_id")).s)

\* Stages [4] and [5] with the scrubber run at every tier
TraceToProcessScrubbed(trace, trace_level) == sanitize_trace(scrub_pii(trace))

\* Stages [4] and [5]: the value handed to extraction.
TraceToProcess(trace, trace_level) ==
    sanitize_trace(IF trace_level = "full_traces" THEN scrub_pii(trace) ELSE trace)

\* extracted_metadata.insert("signature_verified", ..) and, for a key id,
\* extracted_metadata.insert("signature_key_id", ..)
\* The two inserts made only into columns the extraction left free
WithSignatureIfAbsent(extracted, signature_result) ==
    LET with_verified == IF "signature_verified" \in DOMAIN extracted THEN extracted
                         ELSE MapPut(extracted, "signature_verified",
                                     bool_to_string(signature_result.verified))
    IN IF signature_result.key_id.some /\ "signature_key_id" \notin DOMAIN extracted
       THEN MapPut(with_verified, "signature_key_id", signature_result.key_id.v)
       ELSE with_verified

WithSignature(extracted, signature_result) ==
    LET with_verified == MapPut(extracted, "signature_verified",
                                bool_to_string(signature_result.verified))
    IN IF signature_result.key_id.some
       THEN MapPut(with_verified, "signature_key_id", signature_result.key_id.v)
       ELSE with_verified

\* Stage [7] and the accepted TraceResult.
RoutedResult(trace_id, extracted_metadata, trace_level, schema_version) ==
    TraceResult(trace_id, determine_routing(extracted_metadata, trace_level),
                Some(schema_version), TRUE, None, extracted_metadata)

\* Stages [4] to [7].
AcceptedResult(cache, trace, trace_level, schema_version, signature_result) ==
    RoutedResult(TraceId(trace),
                 WithSignature(extract_trace_metadata(cache,
                                   TraceToProcess(trace, trace_level), schema_version),
                               signature_result),
                 trace_level, schema_version)

\* A signature rejection that keeps the destination of a routed trace
SignatureRejectedRouted(trace, schema_version, signature_result) ==
    TraceResult(TraceId(trace), "production", Some(schema_version), FALSE,
                signature_result.error, EmptyMap)

SignatureRejected(trace, schema_version, signature_result) ==
    TraceResult(TraceId(trace), "malformed", Some(schema_version), FALSE,
                signature_result.error, EmptyMap)

\* ------------------------------------------------------------------ inputs

\* Bounds of the model.
MaxBatch == 2

TraceLevels == {"generic", "detailed", "full_traces"}

\* An input of process_batch stands for its text: either text serde_json
\* rejects (ok = FALSE, with the parser's message) or the text of `value`.
Unparseable == [ok |-> FALSE, err |-> "expected value at line 1 column 1"]
Text(value) == [ok |-> TRUE, value |-> value]

ThoughtStart ==
    JObj(<<<<"event_type", JStr("THOUGHT_START")>>,
           <<"data", JObj(<<<<"task_description", JStr("ask bo@ex.io")>>,
                            <<"thought_id", JStr("th-1")>>,
                            <<"round", JNull>>>>)>>>>)

ActionResult(model) ==
    JObj(<<<<"event_type", JStr("ACTION_RESULT")>>,
           <<"data", JObj(<<<<"models_used", JArr(<<JStr(model)>>)>>,
                            <<"action", JStr("speak")>>>>)>>>>)

Startup == JObj(<<<<"event_type", JStr("startup")>>, <<"data", JObj(<<>>)>>>>)

FullComponents == JArr(<<ThoughtStart, ActionResult("claude-3")>>)

MockComponents == JArr(<<ThoughtStart, ActionResult("llama4scout (mock)")>>)

SignedTrace(trace_id, components, signature) ==
    JObj(<<<<"trace_id", JStr(trace_id)>>, <<"components", components>>,
           <<"signature", JStr(signature)>>, <<"signature_key_id", JStr("k1")>>>>)

\* Signed by the holder of PK1 over the modern encoding at level detailed.
TraceModern ==
    SignedTrace("t-modern", FullComponents,
                Sign("PK1", build_199_canonical(FullComponents, "detailed")))

\* Signed over the intermediate encoding (a 1.9.7 signer).
TraceIntermediate ==
    SignedTrace("t-197", MockComponents, Sign("PK1", sort_and_serialize(MockComponents)))

\* Signed over the legacy encoding (a pre-1.9.7 signer).
TraceLegacy ==
    SignedTrace("t-legacy", FullComponents,
                Sign("PK1", sort_and_serialize_legacy(FullComponents)))

\* A signature made for other content.
TraceTampered ==
    SignedTrace("t-tampered", FullComponents,
                Sign("PK1", build_199_canonical(MockComponents, "detailed")))

TraceUnsigned ==
    JObj(<<<<"trace_id", JStr("t-unsigned")>>, <<"components", FullComponents>>>>)

\* The full signature event set of 1.9.3 plus a startup component, unsigned.
TraceMixed ==
    JObj(<<<<"trace_id", JStr("t-mixed")>>,
           <<"components", JArr(<<ThoughtStart, ActionResult("claude-3"), Startup>>)>>>>)

\* A connectivity notification that also carries signature fields.
TraceConnectivity ==
    JObj(<<<<"trace_id", JStr("t-conn")>>, <<"components", JArr(<<Startup>>)>>,
           <<"event_type", JStr("startup")>>, <<"agent_name", JStr("scout")>>,
           <<"agent_id", JNum(7)>>, <<"signature", JStr("AAAA")>>,
           <<"signature_key_id", JStr("k9")>>>>)

TraceNoEvents == JObj(<<<<"trace_id", JStr("test-123")>>>>)

\* A signature without signature_key_id.
TraceNoKeyId ==
    JObj(<<<<"trace_id", JStr("t-nokey")>>, <<"components", FullComponents>>,
           <<"signature", JStr(Sign("PK1", sort_and_serialize(FullComponents)))>>>>)

\* A THOUGHT_START whose data reports a schema_version of its own.
ThoughtStartTagged ==
    JObj(<<<<"event_type", JStr("THOUGHT_START")>>,
           <<"data", JObj(<<<<"task_description", JStr("ask bo@ex.io")>>,
                            <<"schema_version", JStr("connectivity")>>>>)>>>>)

TaggedComponents == JArr(<<ThoughtStartTagged, ActionResult("Mock-Model")>>)

\* Components that carry no event_type, signed by the holder of PK1 over
\* the legacy encoding.
UntypedComponents ==
    JArr(<<JObj(<<<<"data", JObj(<<<<"thought_id", JStr("th-1")>>>>)>>>>)>>)

TraceUntyped ==
    SignedTrace("t-untyped", UntypedComponents,
                Sign("PK1", sort_and_serialize_legacy(UntypedComponents)))

\* Signed over the legacy encoding; a model name in capitals.
TraceTagged ==
    SignedTrace("t-tagged", TaggedComponents,
                Sign("PK1", sort_and_serialize_legacy(TaggedComponents)))

Corpus ==
    {Unparseable, Text(TraceModern), Text(TraceIntermediate), Text(TraceLegacy),
     Text(TraceTampered), Text(TraceUnsigned), Text(TraceMixed),
     Text(TraceConnectivity), Text(TraceNoEvents), Text(TraceNoKeyId),
     Text(TraceTagged), Text(TraceUntyped)}

\* The events of the batches of several traces.
BatchCorpus ==
    {Unparseable, Text(TraceLegacy), Text(TraceUnsigned), Text(TraceMixed),
     Text(TraceConnectivity), Text(TraceNoEvents)}

Batches == UNION {[1..n -> BatchCorpus] : n \in 0..MaxBatch}

\* The batches whose processing is interleaved with the writers: a trace
\* shares nothing with its neighbours in the batch but the two caches.
SingleBatches == {<<>>} \cup {<<event_json>> : event_json \in Corpus}

\* Contents of the trace_schemas and trace_schema_fields tables at a load.
ConnectivityRow == <<"connectivity", "connectivity events", "current", <<"startup", "shutdown">>>>

CatalogA ==
    [schemas |-> <<<<"1.9.3", "full traces", "current", <<"THOUGHT_START", "ACTION_RESULT">>>>,
                   ConnectivityRow>>,
     fields |-> <<<<"1.9.3", "THOUGHT_START", "task_description", "task_description",
                     "string", TRUE, "task_description">>,
                  <<"1.9.3", "ACTION_RESULT", "models_used", "models_used",
                     "json", FALSE, "models_used">>>>]

CatalogB ==
    [schemas |-> <<ConnectivityRow,
                   <<"1.9.3", "full traces", "supported", <<"THOUGHT_START", "ACTION_RESULT">>>>>>,
     fields |-> <<<<"1.9.3", "THOUGHT_START", "thought_id", "thought_id",
                     "string", TRUE, "thought_id">>,
                  <<"1.9.3", "ACTION_RESULT", "action", "action",
                     "string", FALSE, "action_result">>>>]

\* The rows of CatalogA with a rule that stores the schema_version a
\* THOUGHT_START reports in the column schema_version.
CatalogC ==
    [schemas |-> CatalogA.schemas,
     fields |-> <<<<"1.9.3", "THOUGHT_START", "schema_version", "schema_version",
                     "string", FALSE, "schema_version">>,
                  <<"1.9.3", "ACTION_RESULT", "models_used", "models_used",
                     "json", FALSE, "models_used">>>>]

SchemaCatalogs == {CatalogA, CatalogB, CatalogC}

\* Contents of the public key table at a load: (key_id, public_key_base64).
KeyCatalogs ==
    {<<<<"k1", "cGsx">>>>,
     <<<<"k1", "cGsy">>, <<"k2", "c2hvcnQ=">>>>}

\* ------------------------------------------------------------------- state

VARIABLES
    schema_cache,    \* SCHEMA_CACHE
    key_cache,       \* PUBLIC_KEY_CACHE
    schema_origin,   \* history: the last writer of schema_cache
    key_origin,      \* history: the last writer of key_cache
    pc,              \* where the process_batch call stands
    events,          \* its events argument
    trace_level,     \* ctx.trace_level
    idx,             \* the position of the for loop in events
    results,         \* results
    accepted,        \* accepted
    rejected,        \* rejected
    batch_result,    \* the returned BatchResult
    cur,             \* locals of process_single_trace that outlive a step
    obs,             \* history: what the guards of the current trace saw
    probe            \* argument and result of a function applied on its own

vars == <<schema_cache, key_cache, schema_origin, key_origin, pc, events,
          trace_level, idx, results, accepted, rejected, batch_result, cur, obs,
          probe>>

cache_vars == <<schema_cache, key_cache, schema_origin, key_origin>>

batch_vars == <<pc, events, trace_level, idx, results, accepted, rejected,
                batch_result, cur, obs>>

NoCur == [schema_version |-> "", result_199 |-> NoneV, signature_result |-> NoneV]

\* index: the event the record is about; validate, extract: the schema cache
\* (and its last writer) seen by the read guard of validate_schema and of
\* extract_trace_metadata; key_reads: the same for each verify_signature;
\* stages: the stages [3]..[6] that ran.
NoObs == [index |-> 0, validate |-> NoneV, extract |-> NoneV, key_reads |-> <<>>,
          stages |-> {}]

NoBatchResult == [returned |-> FALSE]

NoProbe == [kind |-> "none"]

Init ==
    /\ schema_cache = SchemaCacheNew
    /\ key_cache = PublicKeyCacheNew
    /\ schema_origin = "init"
    /\ key_origin = "init"
    /\ pc = "idle"
    /\ events = <<>>
    /\ trace_level = "detailed"
    /\ idx = 1
    /\ results = <<>>
    /\ accepted = 0
    /\ rejected = 0
    /\ batch_result = NoBatchResult
    /\ cur = NoCur
    /\ obs = NoObs
    /\ probe = NoProbe

\* ----------------------------------------------------------------- writers

LoadSchemas(catalogs) ==
    \E catalog \in catalogs :
        /\ schema_cache' = load_from_db_rows(catalog.schemas, catalog.fields)
        /\ schema_origin' = "load"
        /\ UNCHANGED <<key_cache, key_origin, probe>>
        /\ UNCHANGED batch_vars

load_schemas_from_db == LoadSchemas(SchemaCatalogs)

refresh_schema_cache ==
    /\ schema_cache' = SchemaCacheClear
    /\ schema_origin' = IF schema_origin = "init" THEN "init" ELSE "refresh"
    /\ UNCHANGED <<key_cache, key_origin, probe>>
    /\ UNCHANGED batch_vars

load_public_keys_from_db ==
    \E keys \in KeyCatalogs :
        /\ key_cache' = load_public_keys(keys)
        /\ key_origin' = "load"
        /\ UNCHANGED <<schema_cache, schema_origin, probe>>
        /\ UNCHANGED batch_vars

refresh_public_key_cache ==
    /\ key_cache' = PublicKeyCacheNew
    /\ key_origin' = IF key_origin = "init" THEN "init" ELSE "refresh"
    /\ UNCHANGED <<schema_cache, schema_origin, probe>>
    /\ UNCHANGED batch_vars

\* ------------------------------------------------------------ process_batch

\* process_single_trace up to its first verify_signature: the TraceResult when
\* it returns before, or the schema version it goes on with.
ProcessStart(cache, event_json) ==
    IF ~event_json.ok
    THEN [done |-> TRUE,
          result |-> TraceResult("unknown", "malformed", None, FALSE,
                                 Some("JSON parse error: " \o event_json.err),
                                 EmptyMap)]
    ELSE LET trace == event_json.value
             schema_result == validate_schema(cache, trace)
             schema_version == IF schema_result.version.some
                               THEN schema_result.version.v ELSE ""
             precheck == SignaturePrecheck(trace)
         IN IF ~schema_result.valid
            THEN [done |-> TRUE,
                  result |-> TraceResult(TraceId(trace), "malformed", None, FALSE,
                                         schema_result.reason, EmptyMap)]
            ELSE IF schema_version = "connectivity"
            THEN [done |-> TRUE,
                  result |-> TraceResult(TraceId(trace), "connectivity",
                                         Some(schema_version), TRUE, None,
                                         extract_connectivity_metadata(trace))]
            ELSE IF ~precheck.attempt
            THEN [done |-> TRUE,
                  result |-> SignatureRejected(trace, schema_version, precheck.result)]
            ELSE [done |-> FALSE, schema_version |-> schema_version]

\* process_single_trace when every guard it takes sees the same two caches.
process_single_trace(schemas, keys, event_json, level) ==
    LET start == ProcessStart(schemas, event_json)
    IN IF start.done THEN start.result
       ELSE LET trace == event_json.value
                result_199 == VerifyAttempt(keys, "1.9.9", trace, level)
                result_197 == VerifyAttempt(keys, "1.9.7", trace, level)
                result_pre197 == VerifyAttempt(keys, "pre-1.9.7", trace, level)
                signature_result ==
                    IF result_199.verified THEN result_199
                    ELSE IF result_197.verified THEN result_197
                    ELSE IF result_pre197.verified THEN result_pre197
                    ELSE result_199
            IN IF ~signature_result.verified
               THEN SignatureRejected(trace, start.schema_version, signature_result)
               ELSE AcceptedResult(schemas, trace, level, start.schema_version,
                                   signature_result)

\* validate_schema takes its read guard only past the empty-events return.
ReadsSchemaAtStart(event_json) == event_json.ok /\ AllEvents(event_json.value) # {}

\* results.push(result)
PushResultFront(list, result) == <<result>> \o list

PushResult(list, result) == Append(list, result)

\* if result.accepted { accepted += 1 } else { rejected += 1 }
CountAccepted(n, result) == IF result.accepted THEN n + 1 ELSE n

CountRejectedParsed(n, result) ==
    IF result.accepted \/ ~result.schema_version.some THEN n ELSE n + 1

CountRejected(n, result) == IF result.accepted THEN n ELSE n + 1

\* A round that ends the loop at an input that does not parse
FinishAtParseError(result) ==
    /\ results' = PushResult(results, result)
    /\ accepted' = CountAccepted(accepted, result)
    /\ rejected' = CountRejected(rejected, result)
    /\ idx' = idx + 1
    /\ pc' = IF idx >= Len(events) \/ ~events[idx].ok THEN "return" ELSE "trace"
    /\ cur' = NoCur
    /\ UNCHANGED <<events, trace_level, batch_result>>

\* The end of one round of the for loop.
Finish(result) ==
    /\ results' = PushResult(results, result)
    /\ accepted' = CountAccepted(accepted, result)
    /\ rejected' = CountRejected(rejected, result)
    /\ idx' = idx + 1
    /\ pc' = IF idx >= Len(events) THEN "return" ELSE "trace"
    /\ cur' = NoCur
    /\ UNCHANGED <<events, trace_level, batch_result>>

Continue(next_pc, next_cur) ==
    /\ pc' = next_pc
    /\ cur' = next_cur
    /\ UNCHANGED <<events, trace_level, idx, results, accepted, rejected, batch_result>>

process_batch_call(batches) ==
    /\ pc = "idle"
    /\ \E evs \in batches, level \in TraceLevels :
        /\ events' = evs
        /\ trace_level' = level
        /\ pc' = IF evs = <<>> THEN "return" ELSE "trace"
    /\ idx' = 1
    /\ results' = <<>>
    /\ accepted' = 0
    /\ rejected' = 0
    /\ batch_result' = NoBatchResult
    /\ cur' = NoCur
    /\ obs' = NoObs
    /\ UNCHANGED cache_vars
    /\ UNCHANGED probe

\* Parse, validate_schema, the connectivity return, the match on the
\* signature fields.
trace_start ==
    /\ pc = "trace"
    /\ LET start == ProcessStart(schema_cache, events[idx])
       IN /\ obs' = [NoObs EXCEPT
                        !.index = idx,
                        !.validate = IF ReadsSchemaAtStart(events[idx])
                                     THEN [cache |-> schema_cache, origin |-> schema_origin]
                                     ELSE NoneV]
          /\ IF start.done THEN Finish(start.result)
             ELSE Continue("verify_199",
                           [NoCur EXCEPT !.schema_version = start.schema_version])
    /\ UNCHANGED cache_vars
    /\ UNCHANGED probe

KeyRead(format, result) ==
    [format |-> format, cache |-> key_cache, origin |-> key_origin,
     verified |-> result.verified]

ObserveAttempt(format, result) ==
    obs' = [obs EXCEPT !.key_reads = Append(@, KeyRead(format, result)),
                       !.stages = @ \cup {"signature"}]

verify_199 ==
    /\ pc = "verify_199"
    /\ LET result == VerifyAttempt(key_cache, "1.9.9", events[idx].value, trace_level)
       IN /\ ObserveAttempt("1.9.9", result)
          /\ IF result.verified
             THEN Continue("extract", [cur EXCEPT !.signature_result = result])
             ELSE Continue("verify_197", [cur EXCEPT !.result_199 = result])
    /\ UNCHANGED cache_vars
    /\ UNCHANGED probe

verify_197 ==
    /\ pc = "verify_197"
    /\ LET result == VerifyAttempt(key_cache, "1.9.7", events[idx].value, trace_level)
       IN /\ ObserveAttempt("1.9.7", result)
          /\ IF result.verified
             THEN Continue("extract", [cur EXCEPT !.signature_result = result])
             ELSE Continue("verify_pre197", cur)
    /\ UNCHANGED cache_vars
    /\ UNCHANGED probe

\* The last attempt, returning its own result when it fails
verify_pre197_own_result ==
    /\ pc = "verify_pre197"
    /\ LET result == VerifyAttempt(key_cache, "pre-1.9.7", events[idx].value, trace_level)
       IN /\ ObserveAttempt("pre-1.9.7", result)
          /\ IF result.verified
             THEN Continue("extract", [cur EXCEPT !.signature_result = result])
             ELSE Finish(SignatureRejected(events[idx].value, cur.schema_version,
                                           result))
    /\ UNCHANGED cache_vars
    /\ UNCHANGED probe

verify_pre197 ==
    /\ pc = "verify_pre197"
    /\ LET result == VerifyAttempt(key_cache, "pre-1.9.7", events[idx].value, trace_level)
       IN /\ ObserveAttempt("pre-1.9.7", result)
          /\ IF result.verified
             THEN Continue("extract", [cur EXCEPT !.signature_result = result])
             ELSE Finish(SignatureRejected(events[idx].value, cur.schema_version,
                                           cur.result_199))
    /\ UNCHANGED cache_vars
    /\ UNCHANGED probe

\* Stages [4] to [7] of process_single_trace.
extract ==
    /\ pc = "extract"
    /\ obs' = [obs EXCEPT
                  !.extract = [cache |-> schema_cache, origin |-> schema_origin],
                  !.stages = @ \cup {"sanitize", "extract"}
                               \cup (IF trace_level = "full_traces" THEN {"pii"} ELSE {})]
    /\ Finish(AcceptedResult(schema_cache, events[idx].value, trace_level,
                             cur.schema_version, cur.signature_result))
    /\ UNCHANGED cache_vars
    /\ UNCHANGED probe

BatchResult(evs, acc, rej, traces) ==
    [returned |-> TRUE, received_count |-> Len(evs), accepted_count |-> acc,
     rejected_count |-> rej, traces |-> traces]

process_batch_return ==
    /\ pc = "return"
    /\ batch_result' = BatchResult(events, accepted, rejected, results)
    /\ pc' = "returned"
    /\ UNCHANGED <<events, trace_level, idx, results, accepted, rejected, cur, obs>>
    /\ UNCHANGED cache_vars
    /\ UNCHANGED probe

\* process_trace_batch hands the BatchResult to its caller and its locals
\* are dropped.
process_trace_batch_return ==
    /\ pc = "returned"
    /\ pc' = "idle"
    /\ events' = <<>>
    /\ trace_level' = "detailed"
    /\ idx' = 1
    /\ results' = <<>>
    /\ accepted' = 0
    /\ rejected' = 0
    /\ batch_result' = NoBatchResult
    /\ cur' = NoCur
    /\ obs' = NoObs
    /\ UNCHANGED cache_vars
    /\ UNCHANGED probe

\* The crate's own contract: the writers run at any point between two guard
\* acquisitions of process_batch (every entry point is guarded by the two
\* RwLocks only).
Next ==
    \/ load_schemas_from_db
    \/ refresh_schema_cache
    \/ load_public_keys_from_db
    \/ refresh_public_key_cache
    \/ process_batch_call(SingleBatches)
    \/ trace_start
    \/ verify_199
    \/ verify_197
    \/ verify_pre197
    \/ extract
    \/ process_batch_return
    \/ process_trace_batch_return

Spec == Init /\ [][Next]_vars

\* The extension module as an interpreter with a global lock runs it:
\* process_trace_batch keeps the lock for the whole call, so the writers run
\* between two batches only.
SerialNext ==
    \/ pc = "idle" /\ load_schemas_from_db
    \/ pc = "idle" /\ refresh_schema_cache
    \/ pc = "idle" /\ load_public_keys_from_db
    \/ pc = "idle" /\ refresh_public_key_cache
    \/ process_batch_call(Batches)
    \/ trace_start
    \/ verify_199
    \/ verify_197
    \/ verify_pre197
    \/ extract
    \/ process_batch_return
    \/ process_trace_batch_return

SpecSerial == Init /\ [][SerialNext]_vars

\* ------------------------------------------------- schema detection alone

MaxRows == 2

\* Rows of trace_schemas: (version, description, status, signature_events).
SchemaRows ==
    {<<"1.9.3", "full traces", "current", <<"THOUGHT_START", "ACTION_RESULT">>>>,
     <<"2.0", "next", "supported", <<"THOUGHT_START">>>>,
     <<"1.8", "old", "deprecated", <<"ACTION_RESULT">>>>,
     <<"0.9", "trial", "experimental", <<"THOUGHT_START">>>>,
     <<"1.9.3", "again", "deprecated", <<"startup">>>>,
     <<"3.0", "no events", "supported", <<>>>>,
     ConnectivityRow}

RowCatalogs ==
    {[schemas |-> rows, fields |-> CatalogA.fields] :
        rows \in UNION {[1..n -> SchemaRows] : n \in 0..MaxRows}}

EventSets == SUBSET {"THOUGHT_START", "ACTION_RESULT", "startup"}

\* cache.detect_schema_version(&all_events, ctx) under a read guard
detect_call ==
    /\ probe.kind = "none"
    /\ \E event_types \in EventSets :
        probe' = [kind |-> "detect", event_types |-> event_types,
                  result |-> detect_schema_version(schema_cache, event_types)]
    /\ UNCHANGED cache_vars
    /\ UNCHANGED batch_vars

\* The caller drops the result.
probe_return ==
    /\ probe.kind # "none"
    /\ probe' = NoProbe
    /\ UNCHANGED cache_vars
    /\ UNCHANGED batch_vars

SchemaNext ==
    \/ probe.kind = "none" /\ LoadSchemas(RowCatalogs)
    \/ probe.kind = "none" /\ refresh_schema_cache
    \/ detect_call
    \/ probe_return

SpecSchema == Init /\ [][SchemaNext]_vars

\* ------------------------------------------------------ the key loads alone

MaxKeyRows == 2

\* Rows of the public key table: (key_id, public_key_base64).  "cGsx" and
\* "cGsy" decode to verifying keys, "c2hvcnQ=" to five bytes, "!!" is no
\* base64.
KeyRows == {<<id, b64>> : id \in {"k1", "k2"}, b64 \in {"cGsx", "cGsy", "c2hvcnQ=", "!!"}}

KeyRowCatalogs == UNION {[1..n -> KeyRows] : n \in 0..MaxKeyRows}

\* load_public_keys_from_db(keys); the probe keeps the argument and the
\* cache the call found.
load_keys_call ==
    /\ probe.kind = "none"
    /\ \E keys \in KeyRowCatalogs :
        /\ key_cache' = load_public_keys(keys)
        /\ probe' = [kind |-> "keys", keys |-> keys, before |-> key_cache]
    /\ key_origin' = "load"
    /\ UNCHANGED <<schema_cache, schema_origin>>
    /\ UNCHANGED batch_vars

KeysNext ==
    \/ load_keys_call
    \/ probe.kind = "none" /\ refresh_public_key_cache
    \/ probe_return

SpecKeys == Init /\ [][KeysNext]_vars

\* ----------------------------------------------------- the extraction alone

MaxComponents == 3

\* Rules of two event types that share the column subject, two rules of
\* ACTION_RESULT into subject, and rules into two full-copy keys.
ExtractCatalog ==
    [schemas |-> <<<<"1.9.3", "full traces", "current",
                     <<"THOUGHT_START", "ACTION_RESULT">>>>>>,
     fields |-> <<<<"1.9.3", "THOUGHT_START", "thought_id", "thought_id",
                     "string", FALSE, "subject">>,
                  <<"1.9.3", "THOUGHT_START", "dma", "dma",
                     "string", FALSE, "dma_results">>,
                  <<"1.9.3", "ACTION_RESULT", "action", "action",
                     "string", FALSE, "subject">>,
                  <<"1.9.3", "ACTION_RESULT", "audit", "audit",
                     "string", FALSE, "subject">>,
                  <<"1.9.3", "ACTION_RESULT", "summary", "summary",
                     "string", FALSE, "action_result">>>>]

Component(event_type, pairs) ==
    JObj(<<<<"event_type", JStr(event_type)>>, <<"data", JObj(pairs)>>>>)

ExtractComponentSet ==
    {Component("THOUGHT_START", <<<<"thought_id", JStr("th-1")>>>>),
     Component("THOUGHT_START", <<<<"thought_id", JStr("th-2")>>, <<"dma", JStr("by-rule")>>>>),
     Component("THOUGHT_START", <<>>),
     Component("ACTION_RESULT", <<<<"action", JStr("speak")>>>>),
     Component("ACTION_RESULT", <<<<"action", JStr("defer")>>, <<"audit", JStr("a-1")>>>>),
     Component("ACTION_RESULT", <<<<"summary", JStr("done")>>>>),
     Component("DMA_RESULTS", <<<<"score", JNum(1)>>>>),
     Component("DMA_RESULTS", <<<<"score", JNum(2)>>>>)}

ExtractTraces ==
    {JObj(<<<<"trace_id", JStr("t-x")>>, <<"components", JArr(components)>>>>) :
        components \in UNION {[1..n -> ExtractComponentSet] : n \in 0..MaxComponents}}

\* extract_trace_metadata(&trace_to_process, &schema_version, &log_ctx)
extract_call ==
    /\ probe.kind = "none"
    /\ \E trace \in ExtractTraces :
        probe' = [kind |-> "extract", trace |-> trace, schema_version |-> "1.9.3",
                  metadata |-> extract_trace_metadata(schema_cache, trace, "1.9.3")]
    /\ UNCHANGED cache_vars
    /\ UNCHANGED batch_vars

ExtractNext ==
    \/ probe.kind = "none" /\ LoadSchemas({ExtractCatalog})
    \/ probe.kind = "none" /\ refresh_schema_cache
    \/ extract_call
    \/ probe_return

SpecExtract == Init /\ [][ExtractNext]_vars

\* ------------------------------------------------------ the path resolver alone

MaxSegments == 3

\* The data of test_array_index with a null, a string, a nested array and
\* an empty key; an array and a number at the root.
PathData ==
    {JObj(<<<<"items", JArr(<<JObj(<<<<"name", JStr("first")>>>>),
                              JObj(<<<<"name", JStr("second")>>, <<"", JStr("e")>>>>),
                              JArr(<<JNum(7)>>)>>)>>,
            <<"name", JStr("test")>>,
            <<"n", JNull>>>>),
     JArr(<<JStr("z"), JObj(<<<<"name", JNum(2)>>>>)>>),
     JNum(5)}

PathSegments == {"items", "name", "n", "missing", "0", "1", "3", "+1", "-1", ""}

PathSegmentLists == UNION {[1..n -> PathSegments] : n \in 0..MaxSegments}

\* resolve_json_path(data, &rule.json_path)
resolve_call ==
    /\ probe.kind = "none"
    /\ \E data \in PathData, segments \in PathSegmentLists :
        probe' = [kind |-> "path", data |-> data, segments |-> segments,
                  path |-> Join(segments, "."),
                  result |-> resolve_json_path(data, Join(segments, "."))]
    /\ UNCHANGED cache_vars
    /\ UNCHANGED batch_vars

PathNext == resolve_call \/ probe_return

SpecPath == Init /\ [][PathNext]_vars

\* ------------------------------------------------------- the stripping alone

MaxNesting == 2

StripLeaves == {JNull, JStr(""), JStr("x"), JNum(1), JArr(<<>>), JMap(<<>>)}

\* Arrays and objects of one and two members around each value one level
\* less deep.
RECURSIVE StripValues(_)
StripValues(depth) ==
    IF depth = 0 THEN StripLeaves
    ELSE StripLeaves
         \cup UNION {{JArr(<<v>>), JArr(<<v, JStr("x")>>), JArr(<<JNull, v>>),
                      JObj(<<<<"a", v>>>>), JObj(<<<<"a", v>>, <<"b", JNum(1)>>>>),
                      JObj(<<<<"a", JStr("")>>, <<"b", v>>>>)} :
                         v \in StripValues(depth - 1)}

\* let stripped = strip_empty(value)
strip_call ==
    /\ probe.kind = "none"
    /\ \E value \in StripValues(MaxNesting) :
        probe' = [kind |-> "strip", input |-> value, stripped |-> strip_empty(value)]
    /\ UNCHANGED cache_vars
    /\ UNCHANGED batch_vars

StripNext == strip_call \/ probe_return

SpecStrip == Init /\ [][StripNext]_vars

\* ------------------------------------------- rules into the signature columns

\* The rows of CatalogA with rules of THOUGHT_START into the columns
\* signature_verified and signature_key_id.
CatalogD ==
    [schemas |-> CatalogA.schemas,
     fields |-> <<<<"1.9.3", "THOUGHT_START", "verified", "verified",
                     "boolean", FALSE, "signature_verified">>,
                  <<"1.9.3", "THOUGHT_START", "thought_id", "thought_id",
                     "string", FALSE, "signature_key_id">>,
                  <<"1.9.3", "ACTION_RESULT", "models_used", "models_used",
                     "json", FALSE, "models_used">>>>]

\* A THOUGHT_START whose data reports verified = false.
ThoughtStartUnverified ==
    JObj(<<<<"event_type", JStr("THOUGHT_START")>>,
           <<"data", JObj(<<<<"verified", JBool(FALSE)>>,
                            <<"thought_id", JStr("th-1")>>>>)>>>>)

ColumnComponents(model) == JArr(<<ThoughtStartUnverified, ActionResult(model)>>)

ColumnTrace(model) ==
    SignedTrace("t-columns", ColumnComponents(model),
                Sign("PK1", sort_and_serialize_legacy(ColumnComponents(model))))

ColumnTraces ==
    {ColumnTrace("claude-3"), ColumnTrace("Mock-Model"), TraceLegacy, TraceTampered,
     TraceConnectivity}

\* process_single_trace(&ctx, event_json)
verdict_call ==
    /\ probe.kind = "none"
    /\ \E trace \in ColumnTraces, level \in TraceLevels :
        probe' = [kind |-> "verdict", trace |-> trace, level |-> level,
                  verdict |-> process_single_trace(schema_cache, key_cache,
                                                   Text(trace), level)]
    /\ UNCHANGED cache_vars
    /\ UNCHANGED batch_vars

ColumnNext ==
    \/ probe.kind = "none" /\ LoadSchemas({CatalogA, CatalogD})
    \/ probe.kind = "none" /\ refresh_schema_cache
    \/ probe.kind = "none" /\ load_public_keys_from_db
    \/ probe.kind = "none" /\ refresh_public_key_cache
    \/ verdict_call
    \/ probe_return

SpecColumns == Init /\ [][ColumnNext]_vars

\* ---------------------------------------------------- the PII scrubber alone

MaxDepth == 2

PiiStrings ==
    {"user@domain.com", "555-123-4567", "10.0.0.1", "http://x.io/a",
     "123-45-6789", "4111 1111 1111 1111", "plain text", "",
     "1.2.3.4http://x"}

PiiLeaves == {JStr(str) : str \in PiiStrings} \cup {JNum(42), JNull, JBool(TRUE)}

PiiKeys == {"task_description", "other_field", "thought_id"}

RECURSIVE PiiValues(_)
PiiValues(depth) ==
    IF depth = 0 THEN PiiLeaves
    ELSE LET inner == PiiValues(depth - 1)
         IN inner \cup {JObj(<<<<k, v>>>>) : k \in PiiKeys, v \in inner}
                  \cup {JArr(<<v>>) : v \in inner}

\* the trace of test_trace_scrubbing
TestTrace ==
    JObj(<<<<"thought_id", JStr("test-123")>>,
           <<"task_description", JStr("Contact john@example.com about the issue")>>,
           <<"other_field", JStr("user@domain.com")>>>>)

PiiInputs == PiiValues(MaxDepth) \cup {TestTrace}

PiiInit ==
    /\ Init!1 /\ Init!2 /\ Init!3 /\ Init!4 /\ Init!5 /\ Init!6 /\ Init!7
    /\ Init!8 /\ Init!9 /\ Init!10 /\ Init!11 /\ Init!12 /\ Init!13 /\ Init!14
    /\ probe \in {[kind |-> "pii_input", input |-> v] : v \in PiiInputs}

\* let (scrubbed, pii_result) = scrub_pii(&trace, &log_ctx)
scrub_call ==
    /\ probe.kind = "pii_input"
    /\ probe' = [kind |-> "pii", input |-> probe.input,
                 scrubbed |-> scrub_pii(probe.input)]
    /\ UNCHANGED cache_vars
    /\ UNCHANGED batch_vars

PiiNext == scrub_call

SpecPii == PiiInit /\ [][PiiNext]_vars

\* ---------------------------------------------------- the threat scan alone

\* Field contents: clean text, the strings of the sanitizer's tests, and one
\* string or more for each kind of pattern.
ScanStrings ==
    {"plain text", "<script>alert('xss')</script>",
     "SELECT * FROM users WHERE id = 1; DROP TABLE users;",
     "JavaScript:go()", "<img onerror = x>", "<IFRAME src=a>", "' OR '1",
     "a UNION ALL SELECT b", "/* c */", "; rm -rf /", "x | sh", "$(id)",
     "../secret", "/etc/passwd", "bo@ex.io <script>"}

ScanComponents(payload) ==
    JArr(<<JObj(<<<<"event_type", JStr("THOUGHT_START")>>,
                  <<"data", JObj(<<<<"task_description", JStr(payload)>>,
                                   <<"thought_id", JStr("th-1")>>>>)>>>>),
           ActionResult("claude-3")>>)

\* A trace signed over the legacy encoding with the payload as its
\* task_description.
ScanTrace(payload) ==
    SignedTrace("t-scan", ScanComponents(payload),
                Sign("PK1", sort_and_serialize_legacy(ScanComponents(payload))))

\* let sanitized_trace = sanitize_trace(&trace_to_process, &log_ctx), and
\* process_single_trace on the text of the same trace.
sanitize_call ==
    /\ probe.kind = "none"
    /\ \E payload \in ScanStrings, level \in TraceLevels :
        probe' = [kind |-> "scan", payload |-> payload, level |-> level,
                  input |-> ScanTrace(payload),
                  sanitized |-> sanitize_trace(ScanTrace(payload)),
                  result |-> SanitizeScan(ScanTrace(payload)),
                  verdict |-> process_single_trace(schema_cache, key_cache,
                                                   Text(ScanTrace(payload)), level)]
    /\ UNCHANGED cache_vars
    /\ UNCHANGED batch_vars

ScanNext ==
    \/ probe.kind = "none" /\ load_schemas_from_db
    \/ probe.kind = "none" /\ refresh_schema_cache
    \/ probe.kind = "none" /\ load_public_keys_from_db
    \/ probe.kind = "none" /\ refresh_public_key_cache
    \/ sanitize_call
    \/ probe_return

SpecScan == Init /\ [][ScanNext]_vars

\* -------------------------------------------------------------- properties

\* The trace obs is about has its verdict.
TraceDone == obs.index > 0 /\ Len(results) >= obs.index

DoneVerdict == results[obs.index]

DoneTrace == events[obs.index].value

IsSomeOf(option, value) == option.some /\ option.v = value

\* C1: the schema cache read by validate_schema and the one read by
\* extract_trace_metadata for the same trace are the same snapshot, for every
\* interleaving of process_batch with the schema writers.
C1_SameSchemaSnapshot ==
    (obs.validate # NoneV /\ obs.extract # NoneV)
        => obs.validate.cache = obs.extract.cache

\* A signature attempt of the finished trace verified its signature under its
\* signature_key_id against a key the key cache held at that attempt.
VerifiedAgainstCatalog ==
    \E i \in DOMAIN obs.key_reads :
        LET read == obs.key_reads[i]
            key_id == AsStr(Get(DoneTrace, "signature_key_id"))
            signature == AsStr(Get(DoneTrace, "signature"))
        IN /\ read.verified
           /\ key_id # NoneV
           /\ signature # NoneV
           /\ key_id.s \in DOMAIN read.cache.keys
           /\ signature.s = Sign(read.cache.keys[key_id.s],
                                 CanonicalFor(read.format, DoneTrace, trace_level))

NotConnectivity(verdict) == ~IsSomeOf(verdict.schema_version, "connectivity")

ComponentEvents(trace) ==
    LET components == AsArrayOrEmpty(Get(trace, "components"))
    IN {AsStr(Get(components[i], "event_type")).s :
           i \in {j \in 1..Len(components) :
                     AsStr(Get(components[j], "event_type")) # NoneV}}

\* The components carry the full signature event set of a non-connectivity
\* schema of the catalog that validate_schema read.
CarriesFullSchema ==
    /\ events[obs.index].ok
    /\ obs.validate # NoneV
    /\ \E i \in DOMAIN obs.validate.cache.schemas_by_priority :
        LET schema == obs.validate.cache.schemas_by_priority[i]
        IN /\ schema.version # "connectivity"
           /\ schema.signature_event_types # {}
           /\ schema.signature_event_types \subseteq ComponentEvents(DoneTrace)

\* C3: a trace whose components carry the full signature event set of a
\* loaded non-connectivity schema is never accepted without signature
\* verification, whatever other event types it carries and whatever the
\* status priorities of the loaded schemas.
C3_BypassOnlyForNotifications ==
    (TraceDone /\ CarriesFullSchema /\ DoneVerdict.accepted)
        => \E i \in DOMAIN obs.key_reads : obs.key_reads[i].verified

\* C4: process_batch returns received_count equal to the number of events and
\* to accepted_count + rejected_count, accepted_count being the number of
\* verdicts with accepted = true.
C4_CountsAddUp ==
    batch_result.returned
        => /\ batch_result.received_count = Len(events)
           /\ batch_result.received_count
                  = batch_result.accepted_count + batch_result.rejected_count
           /\ batch_result.accepted_count
                  = Cardinality({i \in DOMAIN batch_result.traces :
                                    batch_result.traces[i].accepted})

\* A batch with an accepted and a rejected trace has returned.
C4_Witness ==
    /\ batch_result.returned
    /\ batch_result.accepted_count = 1
    /\ batch_result.rejected_count = 1

\* C5: process_batch returns one verdict per input event, the i-th verdict
\* being the verdict of the i-th event.
C5_VerdictsInInputOrder ==
    batch_result.returned
        => /\ Len(batch_result.traces) = Len(events)
           /\ \A i \in DOMAIN events :
                  batch_result.traces[i]
                      = process_single_trace(schema_cache, key_cache, events[i],
                                             trace_level)

\* A batch of an unparseable input followed by a signed trace that is
\* accepted has returned.
C5_Witness ==
    /\ batch_result.returned
    /\ Len(events) = 2
    /\ ~events[1].ok
    /\ batch_result.traces[2].accepted
    /\ batch_result.traces[2].destination = "production"

\* C6: a trace processed after a catalog has first been loaded never observes
\* a not-loaded schema catalog or an empty key catalog that a refresh caused.
C6_RefreshReplaces ==
    /\ obs.validate # NoneV
           => (obs.validate.origin = "refresh" => obs.validate.cache.loaded)
    /\ obs.extract # NoneV
           => (obs.extract.origin = "refresh" => obs.extract.cache.loaded)
    /\ \A i \in DOMAIN obs.key_reads :
           obs.key_reads[i].origin = "refresh"
               => DOMAIN obs.key_reads[i].cache.keys # {}

\* C7: the signature attempts made for one trace all read the same key
\* catalog snapshot.
C7_SameKeySnapshot ==
    \A i, j \in DOMAIN obs.key_reads :
        obs.key_reads[i].cache = obs.key_reads[j].cache

\* The metadata of a connectivity verdict: the four top-level fields that
\* are strings, and event_data.
ConnectivityFields == {"event_type", "agent_name", "agent_id", "agent_id_hash"}

ConnectivityMetadata(trace) ==
    [k \in {f \in ConnectivityFields : AsStr(Get(trace, f)) # NoneV} \cup {"event_data"} |->
        IF k = "event_data" THEN to_string(trace) ELSE AsStr(Get(trace, k)).s]

DetectedConnectivity ==
    /\ events[obs.index].ok
    /\ obs.validate # NoneV
    /\ IsSomeOf(validate_schema(obs.validate.cache, DoneTrace).version, "connectivity")

\* C8: a trace whose detected version is connectivity is accepted with
\* destination connectivity whatever its signature fields, the key catalog
\* and the tier; no signature attempt, PII scrub, threat scan or rule-driven
\* extraction runs for it, and its metadata is made of the top-level fields
\* event_type, agent_name, agent_id, agent_id_hash (when strings) and
\* event_data.
C8_ConnectivityBypass ==
    (TraceDone /\ DetectedConnectivity)
        => /\ DoneVerdict.accepted
           /\ DoneVerdict.destination = "connectivity"
           /\ IsSomeOf(DoneVerdict.schema_version, "connectivity")
           /\ ~DoneVerdict.rejection_reason.some
           /\ obs.key_reads = <<>>
           /\ obs.stages = {}
           /\ obs.extract = NoneV
           /\ DoneVerdict.extracted_metadata = ConnectivityMetadata(DoneTrace)

\* A connectivity notification that carries signature fields gets its verdict
\* at the strictest tier while keys are loaded.
C8_Witness ==
    /\ TraceDone
    /\ DetectedConnectivity
    /\ AsStr(Get(DoneTrace, "signature")) # NoneV
    /\ trace_level = "full_traces"
    /\ DOMAIN key_cache.keys # {}

\* The status-priority order of the catalog.
StatusRank(status) ==
    IF status = "current" THEN 0
    ELSE IF status = "supported" THEN 1
    ELSE IF status = "deprecated" THEN 2
    ELSE 3

\* matches as the catalog documents it: the signature set is a subset of the
\* event set (all), or meets it (any).
MatchesEventSet(schema, event_types) ==
    IF schema.match_mode = "any"
    THEN schema.signature_event_types \cap event_types # {}
    ELSE schema.signature_event_types \subseteq event_types

LoadedSchemas == {schema_cache.schemas_by_priority[i] :
                     i \in DOMAIN schema_cache.schemas_by_priority}

\* C9: detect_schema_version(E) returns a schema of the best status rank
\* among the loaded schemas that match E, and none iff no loaded schema
\* matches E; matches is subset (all) or intersection (any).
C9_FirstMatchInPriorityOrder ==
    probe.kind = "detect"
        => LET matching == {d \in LoadedSchemas : MatchesEventSet(d, probe.event_types)}
           IN /\ \A d \in LoadedSchemas :
                     matches(d, probe.event_types) = MatchesEventSet(d, probe.event_types)
              /\ (probe.result = NoneV) = (matching = {})
              /\ probe.result # NoneV
                     => /\ probe.result \in matching
                        /\ \A d \in matching :
                               StatusRank(probe.result.status) <= StatusRank(d.status)

\* Two loaded schemas of different status match the event set, the better
\* one loaded last, and the event set has an event neither asks for.
C9_Witness ==
    /\ probe.kind = "detect"
    /\ probe.result # NoneV
    /\ Len(schema_cache.schemas_by_priority) = 2
    /\ \A d \in LoadedSchemas : MatchesEventSet(d, probe.event_types)
    /\ \E d \in LoadedSchemas : StatusRank(d.status) > StatusRank(probe.result.status)
    /\ \E e \in probe.event_types : \A d \in LoadedSchemas : e \notin d.signature_event_types

\* Every string whose path holds no key of PII_TARGET_FIELDS, and every
\* leaf that is no string, is the same in both values.
RECURSIVE UnlistedPreserved(_, _, _)
UnlistedPreserved(input, output, listed) ==
    IF input.t = "obj"
    THEN /\ output.t = "obj"
         /\ Len(output.entries) = Len(input.entries)
         /\ \A i \in 1..Len(input.entries) :
                /\ output.entries[i].k = input.entries[i].k
                /\ UnlistedPreserved(input.entries[i].v, output.entries[i].v,
                                     listed \/ input.entries[i].k \in PII_TARGET_FIELDS)
    ELSE IF input.t = "arr"
    THEN /\ output.t = "arr"
         /\ Len(output.items) = Len(input.items)
         /\ \A i \in 1..Len(input.items) :
                UnlistedPreserved(input.items[i], output.items[i], listed)
    ELSE IF input.t = "str"
    THEN output.t = "str" /\ (listed \/ output.s = input.s)
    ELSE output = input

\* C10: the PII scrubber rewrites only strings under a key of
\* PII_TARGET_FIELDS; every other string and every leaf that is no string is
\* the same in the scrubbed copy as in the input.
C10_OnlyListedFieldsScrubbed ==
    probe.kind = "pii" => UnlistedPreserved(probe.input, probe.scrubbed, FALSE)

\* C11: a verdict produced at tier generic has a destination other than
\* mock, for every trace, catalog state and extracted models_used value.
C11_NoMockAtGeneric ==
    (TraceDone /\ trace_level = "generic") => DoneVerdict.destination # "mock"

\* A trace whose extracted models_used names a mock model is accepted at
\* tier generic.
C11_Witness ==
    /\ TraceDone
    /\ trace_level = "generic"
    /\ DoneVerdict.accepted
    /\ "models_used" \in DOMAIN DoneVerdict.extracted_metadata
    /\ is_mock_trace(DoneVerdict.extracted_metadata["models_used"])
    /\ DoneVerdict.destination = "production"

\* The entries of the metadata that the signature result did not add.
SignatureKeys == {"signature_verified", "signature_key_id"}

RuleExtracted(metadata) == [k \in DOMAIN metadata \ SignatureKeys |-> metadata[k]]

\* C12: the PII scrub runs exactly when the tier is full_traces, after a
\* signature attempt has verified and before extraction: at full_traces the
\* extracted values are those of the scrubbed copy of the parsed trace, at
\* any other tier those of the parsed trace itself.
C12_ScrubOnlyAtFullTraces ==
    /\ "pii" \in obs.stages => (obs.extract # NoneV /\ trace_level = "full_traces")
    /\ (TraceDone /\ obs.extract # NoneV)
           => /\ obs.key_reads # <<>>
              /\ obs.key_reads[Len(obs.key_reads)].verified
              /\ ("pii" \in obs.stages) = (trace_level = "full_traces")
              /\ RuleExtracted(DoneVerdict.extracted_metadata)
                     = RuleExtracted(extract_trace_metadata(
                           obs.extract.cache,
                           IF trace_level = "full_traces" THEN scrub_pii(DoneTrace)
                           ELSE DoneTrace,
                           DoneVerdict.schema_version.v))

\* At full_traces a task_description with an e-mail address is extracted
\* with the address replaced.
C12_Witness ==
    /\ TraceDone
    /\ trace_level = "full_traces"
    /\ DoneVerdict.accepted
    /\ "task_description" \in DOMAIN DoneVerdict.extracted_metadata
    /\ DoneVerdict.extracted_metadata["task_description"] = "ask [EMAIL]"

\* The elements of seq at the positions of the inputs that parse.
RECURSIVE Kept(_, _)
Kept(seq, evs) ==
    IF seq = <<>> \/ evs = <<>> THEN <<>>
    ELSE IF evs[1].ok THEN <<seq[1]>> \o Kept(Tail(seq), Tail(evs))
    ELSE Kept(Tail(seq), Tail(evs))

\* C13: every input ends in exactly one verdict and none aborts the batch:
\* an input that does not parse gets destination malformed, accepted false,
\* trace_id "unknown", no schema version, empty metadata and a reason that
\* starts with "JSON parse error"; the verdicts of the other inputs are
\* those of the batch without it.
C13_ParseErrorIsOneVerdict ==
    batch_result.returned
        => /\ Len(batch_result.traces) = Len(events)
           /\ \A i \in DOMAIN events :
                  ~events[i].ok
                      => /\ batch_result.traces[i].destination = "malformed"
                         /\ ~batch_result.traces[i].accepted
                         /\ batch_result.traces[i].trace_id = "unknown"
                         /\ ~batch_result.traces[i].schema_version.some
                         /\ batch_result.traces[i].extracted_metadata = EmptyMap
                         /\ batch_result.traces[i].rejection_reason.some
                         /\ SubSeq(batch_result.traces[i].rejection_reason.v, 1, 16)
                                = "JSON parse error"
           /\ LET parsed == Kept(events, events)
              IN Kept(batch_result.traces, events)
                     = [k \in 1..Len(parsed) |->
                           process_single_trace(schema_cache, key_cache, parsed[k],
                                                trace_level)]

\* A batch of an accepted trace followed by an input that does not parse
\* has returned.
C13_Witness ==
    /\ batch_result.returned
    /\ Len(events) = 2
    /\ ~events[2].ok
    /\ batch_result.traces[1].accepted
    /\ batch_result.rejected_count = 1

\* C14: while the schema catalog is not loaded, a trace with at least one
\* event type passes schema validation with version "unknown", and when it
\* is accepted its metadata holds no field taken from its components.
C14_DegradedExtractsNothing ==
    (TraceDone /\ obs.validate # NoneV /\ ~obs.validate.cache.loaded)
        => /\ IsSomeOf(DoneVerdict.schema_version, "unknown")
           /\ (DoneVerdict.accepted /\ ~obs.extract.cache.loaded)
                  => DOMAIN DoneVerdict.extracted_metadata \subseteq SignatureKeys

\* A signed trace is accepted while no catalog is loaded, with nothing but
\* the signature result in its metadata.
C14_Witness ==
    /\ TraceDone
    /\ obs.validate # NoneV
    /\ ~obs.validate.cache.loaded
    /\ DoneVerdict.accepted
    /\ ~obs.extract.cache.loaded
    /\ DOMAIN DoneVerdict.extracted_metadata = SignatureKeys

\* The encodings in the order verify_trace_signature is to try them.
AttemptOrder == <<"1.9.9", "1.9.7", "pre-1.9.7">>

\* C15: the attempts are made in the order modern, intermediate, legacy; no
\* attempt follows one that verified, whose result is returned; when all
\* three fail the trace is rejected with the error of the modern attempt.
C15_EncodingsInOrder ==
    /\ Len(obs.key_reads) <= Len(AttemptOrder)
    /\ \A i \in DOMAIN obs.key_reads :
           /\ obs.key_reads[i].format = AttemptOrder[i]
           /\ obs.key_reads[i].verified => i = Len(obs.key_reads)
    /\ (TraceDone /\ obs.key_reads # <<>>)
           => IF obs.key_reads[Len(obs.key_reads)].verified
              THEN /\ DoneVerdict.accepted
                   /\ DoneVerdict.extracted_metadata["signature_verified"] = "true"
                   /\ DoneVerdict.extracted_metadata["signature_key_id"]
                          = AsStr(Get(DoneTrace, "signature_key_id")).s
              ELSE /\ Len(obs.key_reads) = Len(AttemptOrder)
                   /\ ~DoneVerdict.accepted
                   /\ DoneVerdict.destination = "malformed"
                   /\ DoneVerdict.rejection_reason
                          = verify_signature(obs.key_reads[1].cache,
                                build_199_canonical(Get(DoneTrace, "components"),
                                                    trace_level),
                                AsStr(Get(DoneTrace, "signature")).s,
                                AsStr(Get(DoneTrace, "signature_key_id")).s).error

\* A trace signed over the legacy encoding is accepted at the third attempt.
C15_Witness ==
    /\ TraceDone
    /\ Len(obs.key_reads) = 3
    /\ obs.key_reads[3].verified
    /\ DoneVerdict.accepted

\* C16: for a trace that passed schema validation as other than
\* connectivity, a missing signature is rejected with "No signature
\* provided" and a signature without signature_key_id with a key-id-missing
\* reason, both without any read of the key catalog.
C16_SignatureFieldsFirst ==
    (TraceDone /\ DoneVerdict.schema_version.some /\ NotConnectivity(DoneVerdict))
        => /\ AsStr(Get(DoneTrace, "signature")) = NoneV
                  => /\ ~DoneVerdict.accepted
                     /\ DoneVerdict.destination = "malformed"
                     /\ DoneVerdict.rejection_reason = Some("No signature provided")
                     /\ obs.key_reads = <<>>
           /\ (AsStr(Get(DoneTrace, "signature")) # NoneV
                   /\ AsStr(Get(DoneTrace, "signature_key_id")) = NoneV)
                  => /\ ~DoneVerdict.accepted
                     /\ DoneVerdict.destination = "malformed"
                     /\ DoneVerdict.rejection_reason
                            = Some("Signature present but key_id missing")
                     /\ obs.key_reads = <<>>

\* A signature without key id is rejected while keys are loaded.
C16_Witness ==
    /\ TraceDone
    /\ DoneVerdict.schema_version.some
    /\ AsStr(Get(DoneTrace, "signature")) # NoneV
    /\ AsStr(Get(DoneTrace, "signature_key_id")) = NoneV
    /\ DOMAIN key_cache.keys # {}
    /\ key_origin = "load"

\* C17: a verdict has destination connectivity only if the detected schema
\* version is connectivity: no trace that went through signature
\* verification and rule-driven extraction is routed to connectivity,
\* whatever the loaded field rules write.
C17_ConnectivityOnlyEarly ==
    (TraceDone /\ DoneVerdict.destination = "connectivity")
        => /\ IsSomeOf(DoneVerdict.schema_version, "connectivity")
           /\ obs.key_reads = <<>>
           /\ obs.extract = NoneV

\* C18: after any sequence of loads and clears every schema of the catalog
\* has a non-empty signature event set, so that some event set does not
\* match it.
C18_SignatureSetNonEmpty ==
    \A d \in LoadedSchemas :
        /\ d.signature_event_types # {}
        /\ \E event_types \in EventSets : ~matches(d, event_types)

\* The string holds "mock" in some mix of capitals and small letters.
MentionsMock(str) ==
    \E i \in 1..(Len(str) - 3) : to_lowercase(SubSeq(str, i, i + 3)) = "mock"

\* C19: an accepted trace that is not a connectivity notification goes, at
\* a tier other than generic, to mock iff its extracted models_used holds
\* "mock" case-insensitively and to production otherwise; without an
\* extracted models_used the value is "[]" and the destination production.
C19_MockIffModelsUsed ==
    (TraceDone /\ DoneVerdict.accepted /\ NotConnectivity(DoneVerdict)
        /\ trace_level # "generic")
        => DoneVerdict.destination
               = IF "models_used" \in DOMAIN DoneVerdict.extracted_metadata
                    /\ MentionsMock(DoneVerdict.extracted_metadata["models_used"])
                 THEN "mock" ELSE "production"

\* The verdict of the same trace with clean text for its payload.
CleanVerdict ==
    process_single_trace(schema_cache, key_cache, Text(ScanTrace("plain text")),
                         probe.level)

\* C20: sanitize_trace returns a value equal to its input, and the verdict
\* does not depend on what the scan finds: a trace with a flagged payload
\* has the accepted flag, destination, version and reason of the same trace
\* with clean text, and its metadata differs only in carrying the payload
\* (as scrubbed at full_traces) where the clean text was.
C20_ScanIsAdvisory ==
    probe.kind = "scan"
        => /\ probe.sanitized = probe.input
           /\ probe.verdict.accepted = CleanVerdict.accepted
           /\ probe.verdict.destination = CleanVerdict.destination
           /\ probe.verdict.schema_version = CleanVerdict.schema_version
           /\ probe.verdict.rejection_reason = CleanVerdict.rejection_reason
           /\ DOMAIN probe.verdict.extracted_metadata
                  = DOMAIN CleanVerdict.extracted_metadata
           /\ \A k \in DOMAIN probe.verdict.extracted_metadata :
                  probe.verdict.extracted_metadata[k]
                      = IF k # "task_description" THEN CleanVerdict.extracted_metadata[k]
                        ELSE IF probe.level = "full_traces"
                        THEN scrub_string(probe.payload)
                        ELSE probe.payload

\* A trace whose payload the scan flags is accepted with the payload in its
\* metadata as sent.
C20_Witness ==
    /\ probe.kind = "scan"
    /\ probe.result.xss_detections > 0
    /\ probe.result.total_detections > 0
    /\ probe.verdict.accepted
    /\ "task_description" \in DOMAIN probe.verdict.extracted_metadata
    /\ probe.verdict.extracted_metadata["task_description"] = probe.payload

\* C21: PII scrubbing is idempotent: scrubbing the scrubbed copy of a trace
\* once more yields the scrubbed copy unchanged.
C21_ScrubIdempotent ==
    probe.kind = "pii" => scrub_pii(probe.scrubbed) = probe.scrubbed

HasEventType(value) == Get(value, "event_type").t = "str"

NoEventTypes(trace) ==
    /\ ~HasEventType(trace)
    /\ \A i \in 1..Len(AsArrayOrEmpty(Get(trace, "components"))) :
           ~HasEventType(AsArrayOrEmpty(Get(trace, "components"))[i])

\* C22: a parsed trace with no event_type in any component and none at the
\* top level is rejected as malformed, whatever the schema catalog holds and
\* whether or not it is loaded.
C22_NoEventTypesRejected ==
    (TraceDone /\ events[obs.index].ok /\ NoEventTypes(DoneTrace))
        => (~DoneVerdict.accepted /\ DoneVerdict.destination = "malformed")

\* A trace without event types whose signature the loaded keys verify is
\* rejected while the schema catalog was never loaded.
C22_Witness ==
    /\ TraceDone
    /\ events[obs.index].ok
    /\ DoneTrace = TraceUntyped
    /\ schema_origin = "init"
    /\ ~schema_cache.loaded
    /\ "k1" \in DOMAIN key_cache.keys
    /\ key_cache.keys["k1"] = "PK1"
    /\ DoneVerdict.destination = "malformed"

\* The rows of a load whose value decodes to a verifying key.
ValidRows(keys) == {i \in 1..Len(keys) : DecodeKey(keys[i][2]).ok}

LastValidRow(keys, key_id) ==
    CHOOSE i \in ValidRows(keys) :
        /\ keys[i][1] = key_id
        /\ \A j \in ValidRows(keys) : keys[j][1] = key_id => j <= i

\* C23: after load_public_keys_from_db(K) the key catalog holds exactly the
\* key ids of the rows of K that decode to a verifying key, each with the
\* key of its last such row: earlier keys are gone, a row that fails to
\* decode inserts nothing and does not end the load.
C23_LoadedKeysAreTheValidOnes ==
    probe.kind = "keys" =>
        /\ key_cache.loaded_at
        /\ DOMAIN key_cache.keys = {probe.keys[i][1] : i \in ValidRows(probe.keys)}
        /\ \A key_id \in DOMAIN key_cache.keys :
               key_cache.keys[key_id] =
                   DecodeKey(probe.keys[LastValidRow(probe.keys, key_id)][2]).key

\* A load whose first row fails to decode and whose second row is valid,
\* into a cache that held a key the load does not name.
C23_Witness ==
    /\ probe.kind = "keys"
    /\ Len(probe.keys) = 2
    /\ ~DecodeKey(probe.keys[1][2]).ok
    /\ DecodeKey(probe.keys[2][2]).ok
    /\ \E key_id \in DOMAIN probe.before.keys :
           /\ key_id # probe.keys[1][1]
           /\ key_id # probe.keys[2][1]
           /\ key_id \notin DOMAIN key_cache.keys
    /\ probe.keys[2][1] \in DOMAIN key_cache.keys

ProbeComponents == AsArrayOrEmpty(Get(probe.trace, "components"))

ProbeRules(i) ==
    get_field_rules(schema_cache, probe.schema_version,
                    ComponentEventType(ProbeComponents[i]))

\* The value rule r finds in component i of the probed trace.
RuleValue(i, r) ==
    resolve_json_path(ComponentData(ProbeComponents[i]), ProbeRules(i)[r].json_path)

\* The (component, rule) pairs that resolve into a column.
RuleHits(column) ==
    {<<i, r>> \in (1..Len(ProbeComponents)) \X (1..Len(ExtractCatalog.fields)) :
        /\ r <= Len(ProbeRules(i))
        /\ ProbeRules(i)[r].db_column = column
        /\ RuleValue(i, r) # NoneV}

LastHit(column) ==
    CHOOSE h \in RuleHits(column) :
        \A g \in RuleHits(column) : g[1] < h[1] \/ (g[1] = h[1] /\ g[2] <= h[2])

RuleColumns == {"subject", "dma_results", "action_result"}

\* C24: a column several rules resolve into holds the value of the last
\* such component in component order, and of the last such rule of that
\* component.
C24_LastComponentWins ==
    probe.kind = "extract" =>
        \A column \in RuleColumns :
            RuleHits(column) # {} =>
                /\ column \in DOMAIN probe.metadata
                /\ probe.metadata[column] =
                       convert_value(RuleValue(LastHit(column)[1], LastHit(column)[2]),
                                     ProbeRules(LastHit(column)[1])[LastHit(column)[2]].data_type)

\* Three components resolve into subject, the second through two rules.
C24_Witness ==
    /\ probe.kind = "extract"
    /\ Len(ProbeComponents) = 3
    /\ {h[1] : h \in RuleHits("subject")} = {1, 2, 3}
    /\ <<2, 2>> \in RuleHits("subject")
    /\ probe.metadata["subject"] = "th-1"

FullCopyTypes ==
    {"DMA_RESULTS", "ASPDMA_RESULT", "IDMA_RESULT", "TSASPDMA_RESULT",
     "CONSCIENCE_RESULT", "ACTION_RESULT"}

ComponentsOfType(event_type) ==
    {i \in 1..Len(ProbeComponents) : ComponentEventType(ProbeComponents[i]) = event_type}

\* The full-copy components whose full JSON found its key free: no rule of
\* an earlier component, or of the component itself, had resolved into the
\* key, and no earlier component of the type had stored its copy.
StoresFullCopy(i, event_type) ==
    /\ i \in ComponentsOfType(event_type)
    /\ \A j \in ComponentsOfType(event_type) : j >= i
    /\ \A h \in RuleHits(FullComponentKey(event_type)) : h[1] > i

\* C25: the full data JSON of a component is in the output under the
\* canonical key of its type only when the key was free as the component
\* was reached: a rule value is never replaced by a full copy, and a later
\* component of the same type never replaces the copy of the first.
C25_FullCopyOnlyIfAbsent ==
    probe.kind = "extract" /\ schema_cache.loaded =>
        \A event_type \in FullCopyTypes :
            LET key == FullComponentKey(event_type)
            IN /\ (RuleHits(key) = {} /\ ComponentsOfType(event_type) # {}) =>
                      /\ key \in DOMAIN probe.metadata
                      /\ probe.metadata[key] =
                             to_string(ComponentData(ProbeComponents[
                                 CHOOSE i \in ComponentsOfType(event_type) :
                                     StoresFullCopy(i, event_type)]))
               /\ (RuleHits(key) = {} /\ ComponentsOfType(event_type) = {}) =>
                      key \notin DOMAIN probe.metadata
               /\ RuleHits(key) # {} =>
                      /\ key \in DOMAIN probe.metadata
                      /\ probe.metadata[key] \in
                             {convert_value(RuleValue(h[1], h[2]),
                                            ProbeRules(h[1])[h[2]].data_type) :
                                 h \in RuleHits(key)}

\* A rule value under action_result with an ACTION_RESULT component after
\* it, and two DMA_RESULTS components whose first copy is kept.
C25_Witness ==
    /\ probe.kind = "extract"
    /\ schema_cache.loaded
    /\ Len(ProbeComponents) = 3
    /\ RuleHits("action_result") = {<<1, 3>>}
    /\ ComponentsOfType("ACTION_RESULT") = {1, 2}
    /\ probe.metadata["action_result"] = "done"
    /\ ComponentsOfType("DMA_RESULTS") = {3}

\* The array index each segment of PathSegments names, if it names one.
SegmentIndex == [s \in {"0", "1", "3", "+1"} |-> IF s = "0" THEN 0 ELSE IF s = "3" THEN 3 ELSE 1]

\* The value a list of segments leads to: each segment is a present key of
\* the object reached, or an index within the array reached.
RECURSIVE Located(_, _)
Located(value, segments) ==
    IF segments = <<>> THEN value
    ELSE IF value.t = "obj"
    THEN IF \E i \in 1..Len(value.entries) : value.entries[i].k = segments[1]
         THEN Located(value.entries[CHOOSE i \in 1..Len(value.entries) :
                                        value.entries[i].k = segments[1]].v,
                      Tail(segments))
         ELSE NoneV
    ELSE IF value.t = "arr"
    THEN IF segments[1] \in DOMAIN SegmentIndex
            /\ SegmentIndex[segments[1]] < Len(value.items)
         THEN Located(value.items[SegmentIndex[segments[1]] + 1], Tail(segments))
         ELSE NoneV
    ELSE NoneV

\* C26: resolve_json_path returns the root for the empty path, the value
\* the segments lead to when each names a present key or an index within
\* the array, and none for a missing key, an index that is out of range or
\* no number, and a scalar or null with segments left.
C26_ResolveFollowsPath ==
    probe.kind = "path" =>
        /\ probe.path = "" => probe.result = probe.data
        /\ probe.path # "" => probe.result = Located(probe.data, probe.segments)

\* items.1.name of the data of test_array_index.
C26_Witness ==
    /\ probe.kind = "path"
    /\ probe.path = "items.1.name"
    /\ probe.data.t = "obj"
    /\ probe.result = JStr("second")

EmptyJson == {JNull, JStr(""), JArr(<<>>), JMap(<<>>)}

Children(value) ==
    IF value.t = "arr" THEN value.items
    ELSE IF value.t = "obj" THEN [i \in 1..Len(value.entries) |-> value.entries[i].v]
    ELSE <<>>

\* No entry and no element, at any depth, is null, "", [] or {}.
RECURSIVE NoEmptyInside(_)
NoEmptyInside(value) ==
    \A i \in 1..Len(Children(value)) :
        Children(value)[i] \notin EmptyJson /\ NoEmptyInside(Children(value)[i])

\* The scalars of a value that are neither null nor "", in document order.
RECURSIVE KeptScalars(_)
KeptScalars(value) ==
    IF value.t \in {"arr", "obj"}
    THEN Flatten([i \in 1..Len(Children(value)) |-> KeptScalars(Children(value)[i])])
    ELSE IF value \in EmptyJson THEN <<>> ELSE <<value>>

\* C27: strip_empty removes every entry and element that is null, "", []
\* or {} and every container that becomes empty through it: nothing empty
\* is left at any depth, every other scalar is kept, and stripping the
\* result again returns it unchanged.
C27_StripRemovesEveryEmpty ==
    (probe.kind = "strip" /\ probe.input.t \in {"arr", "obj"}) =>
        IF KeptScalars(probe.input) = <<>>
        THEN probe.stripped = NoneV
        ELSE /\ probe.stripped # NoneV
             /\ NoEmptyInside(probe.stripped)
             /\ KeptScalars(probe.stripped) = KeptScalars(probe.input)
             /\ strip_empty(probe.stripped) = probe.stripped

\* An array that keeps its scalar and loses a container emptied by the
\* stripping.
C27_Witness ==
    /\ probe.kind = "strip"
    /\ probe.input = JArr(<<JObj(<<<<"a", JStr("")>>>>), JStr("x")>>)
    /\ probe.stripped = JArr(<<JStr("x")>>)

\* C28: in every verdict, accepted is false exactly when the destination
\* is malformed; a rejected verdict has a rejection reason and an empty
\* metadata map, an accepted one has no rejection reason and a schema
\* version.
C28_VerdictShape ==
    \A i \in 1..Len(results) :
        /\ ~results[i].accepted <=> results[i].destination = "malformed"
        /\ ~results[i].accepted =>
               /\ results[i].rejection_reason.some
               /\ results[i].extracted_metadata = EmptyMap
        /\ results[i].accepted =>
               /\ ~results[i].rejection_reason.some
               /\ results[i].schema_version.some

\* A verdict rejected at the signature stage: it has the schema version of
\* a validated trace and still the shape of a rejection.
C28_Witness ==
    /\ TraceDone
    /\ ~DoneVerdict.accepted
    /\ DoneVerdict.schema_version.some
    /\ DoneVerdict.destination = "malformed"
    /\ DoneVerdict.rejection_reason.some
    /\ obs.key_reads # <<>>

\* C29: a verdict with destination production or mock has
\* signature_verified = "true" and the signature_key_id of the trace in its
\* metadata, also when field rules write into those two columns; no
\* verdict has signature_verified = "false".
C29_SignatureColumnsWin ==
    probe.kind = "verdict" =>
        /\ probe.verdict.destination \in {"production", "mock"} =>
               /\ "signature_verified" \in DOMAIN probe.verdict.extracted_metadata
               /\ probe.verdict.extracted_metadata["signature_verified"] = "true"
               /\ "signature_key_id" \in DOMAIN probe.verdict.extracted_metadata
               /\ probe.verdict.extracted_metadata["signature_key_id"] =
                      Get(probe.trace, "signature_key_id").s
        /\ "signature_verified" \in DOMAIN probe.verdict.extracted_metadata =>
               probe.verdict.extracted_metadata["signature_verified"] # "false"

\* A mock verdict under a catalog whose rules resolve into both columns.
C29_Witness ==
    /\ probe.kind = "verdict"
    /\ probe.verdict.destination = "mock"
    /\ probe.trace = ColumnTrace("Mock-Model")
    /\ \E r \in 1..Len(get_field_rules(schema_cache, "1.9.3", "THOUGHT_START")) :
           /\ get_field_rules(schema_cache, "1.9.3", "THOUGHT_START")[r].db_column
                  = "signature_verified"
           /\ convert_value(resolve_json_path(ComponentData(ThoughtStartUnverified),
                      get_field_rules(schema_cache, "1.9.3", "THOUGHT_START")[r].json_path),
                  get_field_rules(schema_cache, "1.9.3", "THOUGHT_START")[r].data_type)
                  = "false"

\* C30: after any load, the version map and the priority list of the
\* schema catalog hold the same definitions: the map entry for the version
\* of each definition of the list is that definition, so get_field_rules
\* for a detected version returns the rules of the detected definition.
C30_MapAgreesWithPriorityList ==
    \A i \in 1..Len(schema_cache.schemas_by_priority) :
        /\ schema_cache.schemas_by_priority[i].version \in DOMAIN schema_cache.schemas
        /\ schema_cache.schemas[schema_cache.schemas_by_priority[i].version]
               = schema_cache.schemas_by_priority[i]

====
